---- MODULE Spec2Model ----
(***************************************************************************)
(* terraform-module-lineage: the source classifier, the parser's traversal *)
(* (parse_directory), the graph assembler (build_graph) and the cycle      *)
(* reporter (find_cycles).                                                 *)
(*                                                                         *)
(* Python strings are sequences of one-character strings, so that prefix,  *)
(* substring, count and split are computed as the code computes them.  An  *)
(* absent source (None) and the empty string are both <<>>: every use in   *)
(* the code goes through truthiness (`if not source`, `m.source and ...`,  *)
(* `m.source or ""`).                                                      *)
(***************************************************************************)
EXTENDS Integers, Sequences, FiniteSets, TLC

VARIABLES pc, source, verdict, fs, parsed, include_resources, G, cycles, passes_done, build_locals

vars == <<pc, source, verdict, fs, parsed, include_resources, G, cycles, passes_done, build_locals>>

(***************************************************************************)
(* Bounds.                                                                 *)
(***************************************************************************)
\* fragments concatenated into a source string for the classifier
MaxFrags == 3
\* module blocks in the tree
MaxModules == 2
\* resource blocks in the tree
MaxResources == 1
\* nodes of the graphs handed to find_cycles on its own
MaxCycleNodes == 3

(***************************************************************************)
(* str methods.                                                            *)
(***************************************************************************)
StartsWith(s, p) == Len(p) <= Len(s) /\ SubSeq(s, 1, Len(p)) = p

Contains(s, p) == \E i \in 1..(Len(s) - Len(p) + 1) : SubSeq(s, i, i + Len(p) - 1) = p

CountChar(s, c) == Cardinality({i \in 1..Len(s) : s[i] = c})

\* str.find: the index (from 1) of the first occurrence of p in s, 0 if none
Find(s, p) ==
    IF Contains(s, p)
    THEN CHOOSE i \in 1..(Len(s) - Len(p) + 1) :
            /\ SubSeq(s, i, i + Len(p) - 1) = p
            /\ \A j \in 1..(i - 1) : SubSeq(s, j, j + Len(p) - 1) # p
    ELSE 0

\* s.split(sep, 1): at most one cut, at the first occurrence
Split1(s, sep) ==
    LET i == Find(s, sep)
    IN  IF i = 0 THEN <<s>>
        ELSE <<SubSeq(s, 1, i - 1), SubSeq(s, i + Len(sep), Len(s))>>

\* s.split(sep): cut at every occurrence, left to right
RECURSIVE Split(_, _)
Split(s, sep) ==
    LET i == Find(s, sep)
    IN  IF i = 0 THEN <<s>>
        ELSE <<SubSeq(s, 1, i - 1)>> \o Split(SubSeq(s, i + Len(sep), Len(s)), sep)

\* sep.join(parts)
RECURSIVE Join(_, _)
Join(parts, sep) ==
    IF parts = <<>> THEN <<>>
    ELSE IF Len(parts) = 1 THEN parts[1]
    ELSE parts[1] \o sep \o Join(Tail(parts), sep)

RECURSIVE Concat(_)
Concat(parts) == IF parts = <<>> THEN <<>> ELSE parts[1] \o Concat(Tail(parts))

(***************************************************************************)
(* String literals of the code.                                            *)
(***************************************************************************)
S_git_scheme == <<"g","i","t",":",":">>
S_http == <<"h","t","t","p">>
S_https == <<"h","t","t","p","s",":","/","/">>
S_colons == <<":",":">>
S_slash == <<"/">>
S_dot_slash == <<".","/">>
S_dotdot_slash == <<".",".","/">>
S_dot_git == <<".","g","i","t">>
S_github == <<"g","i","t","h","u","b",".","c","o","m">>
S_gitlab == <<"g","i","t","l","a","b",".","c","o","m">>
S_bitbucket == <<"b","i","t","b","u","c","k","e","t",".","o","r","g">>
S_module_dot == <<"m","o","d","u","l","e",".">>
S_var_dot == <<"v","a","r",".">>
S_local_dot == <<"l","o","c","a","l",".">>
S_data_dot == <<"d","a","t","a",".">>

(***************************************************************************)
(* Source classifier (analysis/dependency_graph.py).                       *)
(***************************************************************************)
\* the guard shared by _is_local_source and _is_registry_module
HasProtocol(s) ==
    \/ StartsWith(s, S_git_scheme)
    \/ StartsWith(s, S_http)
    \/ StartsWith(s, S_https)
    \/ Contains(s, S_colons)

\* "/" in source, no ./ or ../ prefix, and source.count("/") >= 2
RegistryShape(s) ==
    /\ Contains(s, S_slash)
    /\ ~StartsWith(s, S_dot_slash)
    /\ ~StartsWith(s, S_dotdot_slash)
    /\ CountChar(s, "/") >= 2

_is_local_source(s) ==
    IF s = <<>> THEN FALSE
    ELSE IF HasProtocol(s) THEN FALSE
    ELSE IF RegistryShape(s) THEN FALSE
    ELSE \/ StartsWith(s, S_dot_slash)
         \/ StartsWith(s, S_dotdot_slash)
         \/ (~StartsWith(s, S_slash) /\ ~Contains(s, S_slash))

_is_registry_module(s) ==
    IF s = <<>> THEN FALSE
    ELSE IF HasProtocol(s) THEN FALSE
    ELSE RegistryShape(s)

_is_git_source(s) ==
    IF s = <<>> THEN FALSE
    ELSE \/ StartsWith(s, S_git_scheme)
         \/ StartsWith(s, S_github)
         \/ StartsWith(s, S_gitlab)
         \/ StartsWith(s, S_bitbucket)
         \/ Contains(s, S_dot_git)

\* the three predicates applied to one source string
Classification(s) ==
    [git |-> _is_git_source(s),
     registry |-> _is_registry_module(s),
     local |-> _is_local_source(s)]

(***************************************************************************)
(* Source strings for the classifier: every concatenation of at most       *)
(* MaxFrags of the fragments the rules look for, plus a plain letter.      *)
(***************************************************************************)
Fragments ==
    {S_git_scheme, S_http, S_https, S_colons, S_slash, S_dot_slash,
     S_dotdot_slash, S_dot_git, S_github, S_gitlab, S_bitbucket, <<"a">>}

FragSeqs == UNION {[1..n -> Fragments] : n \in 0..MaxFrags}

SourceStrings == {Concat(fsq) : fsq \in FragSeqs}

NoVerdict == [git |-> FALSE, registry |-> FALSE, local |-> FALSE]

(***************************************************************************)
(* pathlib (posix).  A Path is its anchor and its parts; parsing a string  *)
(* drops empty and "." segments, str() joins the parts again.              *)
(***************************************************************************)
ParsePath(s) ==
    [abs |-> StartsWith(s, S_slash),
     parts |-> SelectSeq(Split(s, S_slash), LAMBDA x : x # <<>> /\ x # <<".">>)]

PathStr(p) ==
    IF p.abs THEN S_slash \o Join(p.parts, S_slash)
    ELSE IF p.parts = <<>> THEN <<".">>
    ELSE Join(p.parts, S_slash)

PathParent(p) ==
    IF p.parts = <<>> THEN p
    ELSE [p EXCEPT !.parts = SubSeq(p.parts, 1, Len(p.parts) - 1)]

PathName(p) == IF p.parts = <<>> THEN <<>> ELSE p.parts[Len(p.parts)]

\* p / s
PathJoin(p, s) ==
    LET q == ParsePath(s)
    IN  IF q.abs THEN q ELSE [abs |-> p.abs, parts |-> p.parts \o q.parts]

RECURSIVE Normalize(_, _)
Normalize(done, rest) ==
    IF rest = <<>> THEN done
    ELSE IF Head(rest) = <<".", ".">>
         THEN Normalize(IF done = <<>> THEN done ELSE SubSeq(done, 1, Len(done) - 1),
                        Tail(rest))
         ELSE Normalize(Append(done, Head(rest)), Tail(rest))

\* Path.resolve() of an absolute path on a tree without symbolic links; it is
\* not strict, so a path that does not exist resolves without an error
Resolve(p) == [abs |-> p.abs, parts |-> Normalize(<<>>, p.parts)]

IsRelativeTo(p, base) ==
    /\ p.abs = base.abs
    /\ Len(base.parts) <= Len(p.parts)
    /\ SubSeq(p.parts, 1, Len(base.parts)) = base.parts

\* p.relative_to(base), defined when IsRelativeTo(p, base); else ValueError
RelativeTo(p, base) ==
    [abs |-> FALSE, parts |-> SubSeq(p.parts, Len(base.parts) + 1, Len(p.parts))]

(***************************************************************************)
(* The directory tree the tool is run on.  root_dir is args.input.resolve()*)
(* (tfla.py), an absolute directory: /r, or the filesystem root /.  Below  *)
(* it lie the directories a and a/net; Terraform files may exist at        *)
(* main.tf and a/net/main.tf.                                              *)
(***************************************************************************)
N_r == <<"r">>
N_a == <<"a">>
N_net == <<"n","e","t">>
N_x == <<"x">>
N_aws == <<"a","w","s">>
N_z == <<"z">>
N_main_tf == <<"m","a","i","n",".","t","f">>

Roots == {[abs |-> TRUE, parts |-> <<N_r>>], [abs |-> TRUE, parts |-> <<>>]}

\* the directories that exist: root_dir, those under it and those above it
Dirs(root_dir) ==
    {root_dir,
     [root_dir EXCEPT !.parts = @ \o <<N_a>>],
     [root_dir EXCEPT !.parts = @ \o <<N_a, N_net>>]}
    \cup {[root_dir EXCEPT !.parts = SubSeq(@, 1, k)] : k \in 0..(Len(root_dir.parts) - 1)}

\* the *.tf paths in the order rglob lists them
TfFiles(root_dir) ==
    <<[root_dir EXCEPT !.parts = @ \o <<N_main_tf>>],
      [root_dir EXCEPT !.parts = @ \o <<N_a, N_net, N_main_tf>>]>>

(***************************************************************************)
(* Entity model and parse_directory (parsing/terraform_parser.py).         *)
(***************************************************************************)
S_module_colon == <<"m","o","d","u","l","e",":">>
S_source_module_colon == <<"s","o","u","r","c","e","_","m","o","d","u","l","e",":">>
S_resource_colon == <<"r","e","s","o","u","r","c","e",":">>
S_colon == <<":">>
S_dot == <<".">>
S_source_module_file == <<"[","s","o","u","r","c","e"," ","m","o","d","u","l","e","]">>

\* the parser's own _is_local_source (terraform_parser.py), looser than the
\* analysis module's
parser_is_local_source(s) ==
    IF s = <<>> THEN FALSE
    ELSE \/ StartsWith(s, S_dot_slash)
         \/ StartsWith(s, S_dotdot_slash)
         \/ (/\ ~StartsWith(s, S_git_scheme)
             /\ ~StartsWith(s, S_http)
             /\ ~Contains(s, S_colons))

\* str(path.relative_to(search_root)) or, on ValueError, str(path)
RelDir(path, search_root) ==
    IF IsRelativeTo(path, search_root)
    THEN PathStr(RelativeTo(path, search_root))
    ELSE PathStr(path)

\* d[key] = value on a dict kept as a sequence of records with an id field:
\* an existing key keeps its place
DictPut(d, rec) ==
    IF \E i \in 1..Len(d) : d[i].id = rec.id
    THEN [i \in 1..Len(d) |-> IF d[i].id = rec.id THEN rec ELSE d[i]]
    ELSE Append(d, rec)

\* name_index.get(name, [])
IndexGet(name_index, name) ==
    IF name \in DOMAIN name_index THEN name_index[name] ELSE <<>>

\* name_index.setdefault(name, []).append(id)
IndexAppend(name_index, name, id) ==
    IF name \in DOMAIN name_index
    THEN [name_index EXCEPT ![name] = Append(@, id)]
    ELSE name_index @@ (name :> <<id>>)

NoAttrs == [k \in {} |-> 0]

EmptyParse ==
    [parsed_paths |-> {}, modules |-> <<>>, resources |-> <<>>, name_index |-> NoAttrs]

\* _parse_path for a source module without the visited-path test
ParseSourceModule_Revisit(st, current_path, search_root) ==
    LET rel_dir == RelDir(current_path, search_root)
        module_name == PathName(current_path)
        node_id == S_source_module_colon \o rel_dir \o S_colon \o module_name
        mi == [id |-> node_id, name |-> module_name, dir |-> rel_dir,
               source |-> <<>>, file_path |-> PathStr(current_path),
               file_name |-> S_source_module_file,
               explicit_deps |-> <<>>, implicit_module_refs |-> <<>>]
    IN  [st EXCEPT !.parsed_paths = @ \cup {current_path},
                   !.modules = DictPut(@, mi),
                   !.name_index = IndexAppend(@, module_name, node_id)]

\* _parse_path(current_path, search_root, is_source_module=True)
ParseSourceModule(st, current_path, search_root) ==
    IF current_path \in st.parsed_paths THEN st
    ELSE LET rel_dir == RelDir(current_path, search_root)
             module_name == PathName(current_path)
             node_id == S_source_module_colon \o rel_dir \o S_colon \o module_name
             mi == [id |-> node_id, name |-> module_name, dir |-> rel_dir,
                    source |-> <<>>, file_path |-> PathStr(current_path),
                    file_name |-> S_source_module_file,
                    explicit_deps |-> <<>>, implicit_module_refs |-> <<>>]
         IN  [st EXCEPT !.parsed_paths = @ \cup {current_path},
                        !.modules = DictPut(@, mi),
                        !.name_index = IndexAppend(@, module_name, node_id)]

\* one module block of file tf
ParseModuleBlock(st, tf, b, search_root) ==
    LET rel_dir == RelDir(PathParent(tf), search_root)
        node_id == S_module_colon \o rel_dir \o S_colon \o b.name
        mi == [id |-> node_id, name |-> b.name, dir |-> rel_dir,
               source |-> b.source, file_path |-> PathStr(tf),
               file_name |-> PathName(tf),
               explicit_deps |-> b.depends_on,
               implicit_module_refs |-> b.refs]
        st1 == [st EXCEPT !.modules = DictPut(@, mi),
                          !.name_index = IndexAppend(@, b.name, node_id)]
        local_module_path == Resolve(PathJoin(PathParent(tf), b.source))
    IN  IF b.source # <<>> /\ parser_is_local_source(b.source)
           /\ local_module_path \in Dirs(search_root)
        THEN ParseSourceModule(st1, local_module_path, search_root)
        ELSE st1

\* one resource instance of file tf
ParseResourceBlock(st, tf, b, search_root) ==
    LET rel_dir == RelDir(PathParent(tf), search_root)
        key == b.type \o S_dot \o b.name
        resource_id == S_resource_colon \o rel_dir \o S_colon \o key
        ri == [id |-> resource_id, name |-> b.name, type |-> b.type,
               dir |-> rel_dir, file_path |-> PathStr(tf),
               file_name |-> PathName(tf), explicit_deps |-> b.depends_on]
    IN  [st EXCEPT !.resources = DictPut(@, ri),
                   !.name_index = IndexAppend(@, key, resource_id)]

RECURSIVE ParseModuleBlocks(_, _, _, _)
ParseModuleBlocks(st, tf, blocks, search_root) ==
    IF blocks = <<>> THEN st
    ELSE ParseModuleBlocks(
            IF TfFiles(search_root)[Head(blocks).file] = tf
            THEN ParseModuleBlock(st, tf, Head(blocks), search_root) ELSE st,
            tf, Tail(blocks), search_root)

RECURSIVE ParseResourceBlocks(_, _, _, _)
ParseResourceBlocks(st, tf, blocks, search_root) ==
    IF blocks = <<>> THEN st
    ELSE ParseResourceBlocks(
            IF TfFiles(search_root)[Head(blocks).file] = tf
            THEN ParseResourceBlock(st, tf, Head(blocks), search_root) ELSE st,
            tf, Tail(blocks), search_root)

\* the body of `for tf in tf_files`: the file's module blocks, then its resources
RECURSIVE ParseFiles(_, _, _, _)
ParseFiles(st, files, tree, search_root) ==
    IF files = <<>> THEN st
    ELSE ParseFiles(
            ParseResourceBlocks(
                ParseModuleBlocks(st, Head(files), tree.modules, search_root),
                Head(files), tree.resources, search_root),
            Tail(files), tree, search_root)

\* parse_directory(root_dir): _parse_path(root_dir, root_dir)
parse_directory(root_dir, tree) ==
    LET st == ParseFiles([EmptyParse EXCEPT !.parsed_paths = {root_dir}],
                         TfFiles(root_dir), tree, root_dir)
    IN  [root_dir |-> root_dir, modules |-> st.modules,
         resources |-> st.resources, name_index |-> st.name_index,
         parsed_paths |-> st.parsed_paths]

(***************************************************************************)
(* networkx.DiGraph: nodes and edges with attribute records.  add_edge     *)
(* creates a missing endpoint as a node without attributes; adding what    *)
(* exists updates its attributes.                                          *)
(***************************************************************************)
\* y, once x (a function, record or sequence) is computed
Then(x, y) == IF DOMAIN x = {} THEN y ELSE y

\* a left fold; each step's value is computed before the following step
\* starts, as a loop does
RECURSIVE FoldSeq(_, _, _)
FoldSeq(Op(_, _), acc, s) ==
    IF s = <<>> THEN acc
    ELSE LET next == Op(acc, Head(s))
         IN  Then(next, FoldSeq(Op, next, Tail(s)))

EmptyGraph == [nodes |-> NoAttrs, edges |-> NoAttrs]

has_node(g, n) == n \in DOMAIN g.nodes

has_edge(g, u, v) == <<u, v>> \in DOMAIN g.edges

PutAttrs(f, k, attrs) ==
    IF k \in DOMAIN f THEN [f EXCEPT ![k] = attrs @@ @] ELSE f @@ (k :> attrs)

add_node(g, n, attrs) == [g EXCEPT !.nodes = PutAttrs(@, n, attrs)]

\* an add_edge that replaces the attributes of an edge it finds
add_edge_Replace(g, u, v, attrs) ==
    [nodes |-> PutAttrs(PutAttrs(g.nodes, u, NoAttrs), v, NoAttrs),
     edges |-> IF <<u, v>> \in DOMAIN g.edges
               THEN [g.edges EXCEPT ![<<u, v>>] = attrs]
               ELSE g.edges @@ (<<u, v>> :> attrs)]

add_edge(g, u, v, attrs) ==
    [nodes |-> PutAttrs(PutAttrs(g.nodes, u, NoAttrs), v, NoAttrs),
     edges |-> PutAttrs(g.edges, <<u, v>>, attrs)]

(***************************************************************************)
(* build_graph (analysis/dependency_graph.py).  The dicts terraform_files  *)
(* and folders are sequences of records with an id, in insertion order.    *)
(* Node attributes carried: kind, module_type, name, dir, source,          *)
(* file_path, file_name, folder_path, display_path, level (label and id    *)
(* repeat them).                                                           *)
(***************************************************************************)
S_file_colon == <<"f","i","l","e",":">>
S_folder_colon == <<"f","o","l","d","e","r",":">>
S_registry_colon == <<"r","e","g","i","s","t","r","y",":">>
S_git_colon == <<"g","i","t",":">>
S_uses == <<"u","s","e","s"," ">>
S_main_module == <<"m","a","i","n"," ","m","o","d","u","l","e">>
S_submodule == <<"s","u","b","m","o","d","u","l","e",":"," ">>
S_slash_slash == <<"/","/">>

HasKey(d, id) == \E i \in 1..Len(d) : d[i].id = id

Lookup(d, id) == d[CHOOSE i \in 1..Len(d) : d[i].id = id]

ContainsAttrs == [edge_type |-> "contains", style |-> "dashed"]

IsSourceModuleId(mid) == StartsWith(mid, S_source_module_colon)

\* m.source and (_is_registry_module(m.source) or _is_git_source(m.source))
IsExternalSource(m) ==
    m.source # <<>> /\ (_is_registry_module(m.source) \/ _is_git_source(m.source))

\* file_path_obj, lines 22 and 135
FilePathObj(file_path, root_dir) ==
    IF ParsePath(file_path).abs THEN ParsePath(file_path)
    ELSE PathJoin(root_dir, file_path)

\* lines 39-47
DisplayPath(current_path, root_dir) ==
    IF IsRelativeTo(current_path, root_dir)
    THEN LET display_path == PathStr(RelativeTo(current_path, root_dir))
         IN  IF display_path = <<".">> THEN PathName(current_path) ELSE display_path
    ELSE PathStr(current_path)

\* the folders[folder_id] record of lines 49-55 and 160-166; inside the walk
\* current_path.parent != current_path, so parent_path is never None
NewFolder(current_path, root_dir) ==
    [id |-> S_folder_colon \o PathStr(current_path),
     folder_path |-> PathStr(current_path),
     folder_name |-> PathName(current_path),
     display_path |-> DisplayPath(current_path, root_dir),
     files |-> <<>>,
     parent_path |-> IF PathParent(current_path) # current_path
                     THEN PathStr(PathParent(current_path)) ELSE <<>>]

AddFile(folders, folder_id, file_id) ==
    [i \in 1..Len(folders) |->
        IF folders[i].id = folder_id
        THEN [folders[i] EXCEPT !.files = Append(@, file_id)]
        ELSE folders[i]]

\* the while loop of lines 35-58
RECURSIVE WalkModuleFolders(_, _, _)
WalkModuleFolders(folders, current_path, root_dir) ==
    IF current_path = PathParent(root_dir) \/ current_path = PathParent(current_path)
    THEN folders
    ELSE WalkModuleFolders(
            IF HasKey(folders, S_folder_colon \o PathStr(current_path))
            THEN folders
            ELSE Append(folders, NewFolder(current_path, root_dir)),
            PathParent(current_path), root_dir)

\* the while loop of lines 148-172, which also registers the file
RECURSIVE WalkResourceFolders(_, _, _, _, _)
WalkResourceFolders(folders, current_path, folder_path, file_id, root_dir) ==
    IF current_path = PathParent(root_dir) \/ current_path = PathParent(current_path)
    THEN folders
    ELSE LET folder_id == S_folder_colon \o PathStr(current_path)
             f1 == IF HasKey(folders, folder_id) THEN folders
                   ELSE Append(folders, NewFolder(current_path, root_dir))
             f2 == IF current_path = folder_path
                   THEN AddFile(f1, folder_id, file_id) ELSE f1
         IN  WalkResourceFolders(f2, PathParent(current_path), folder_path,
                                 file_id, root_dir)

NewFile(file_id, e, folder_path) ==
    [id |-> file_id, file_path |-> e.file_path, file_name |-> e.file_name,
     folder_path |-> PathStr(folder_path), folder_name |-> PathName(folder_path),
     modules |-> <<>>, resources |-> <<>>]

\* the loop of lines 16-65 without the exclusion of source modules
CollectModuleFile_AllModules(c, m, root_dir) ==
    IF m.file_path # <<>> /\ m.file_name # <<>>
    THEN LET file_id == S_file_colon \o m.file_path
             folder_path == PathParent(FilePathObj(m.file_path, root_dir))
             walked == WalkModuleFolders(c.folders, folder_path, root_dir)
             immediate_parent_folder_id == S_folder_colon \o PathStr(folder_path)
             c1 == IF HasKey(c.terraform_files, file_id) THEN c
                   ELSE [terraform_files |->
                            Append(c.terraform_files, NewFile(file_id, m, folder_path)),
                         folders |->
                            IF HasKey(walked, immediate_parent_folder_id)
                            THEN AddFile(walked, immediate_parent_folder_id, file_id)
                            ELSE walked]
         IN  [c1 EXCEPT !.terraform_files =
                [i \in 1..Len(@) |->
                    IF @[i].id = file_id
                    THEN [@[i] EXCEPT !.modules = Append(@, m.id)] ELSE @[i]]]
    ELSE c

\* one iteration of the loop of lines 16-65
CollectModuleFile(c, m, root_dir) ==
    IF m.file_path # <<>> /\ m.file_name # <<>> /\ ~IsSourceModuleId(m.id)
    THEN LET file_id == S_file_colon \o m.file_path
             folder_path == PathParent(FilePathObj(m.file_path, root_dir))
             walked == WalkModuleFolders(c.folders, folder_path, root_dir)
             immediate_parent_folder_id == S_folder_colon \o PathStr(folder_path)
             c1 == IF HasKey(c.terraform_files, file_id) THEN c
                   ELSE [terraform_files |->
                            Append(c.terraform_files, NewFile(file_id, m, folder_path)),
                         folders |->
                            IF HasKey(walked, immediate_parent_folder_id)
                            THEN AddFile(walked, immediate_parent_folder_id, file_id)
                            ELSE walked]
         IN  [c1 EXCEPT !.terraform_files =
                [i \in 1..Len(@) |->
                    IF @[i].id = file_id
                    THEN [@[i] EXCEPT !.modules = Append(@, m.id)] ELSE @[i]]]
    ELSE c

CollectModuleFiles(parsed_model) ==
    FoldSeq(LAMBDA c, m : CollectModuleFile(c, m, parsed_model.root_dir),
            [terraform_files |-> <<>>, folders |-> <<>>], parsed_model.modules)

\* one iteration of the loop of lines 130-177
CollectResourceFile(c, r, root_dir) ==
    IF r.file_path # <<>> /\ r.file_name # <<>>
    THEN LET file_id == S_file_colon \o r.file_path
             folder_path == PathParent(FilePathObj(r.file_path, root_dir))
             c1 == IF HasKey(c.terraform_files, file_id) THEN c
                   ELSE [terraform_files |->
                            Append(c.terraform_files, NewFile(file_id, r, folder_path)),
                         folders |->
                            WalkResourceFolders(c.folders, folder_path, folder_path,
                                                file_id, root_dir)]
         IN  [c1 EXCEPT !.terraform_files =
                [i \in 1..Len(@) |->
                    IF @[i].id = file_id
                    THEN [@[i] EXCEPT !.resources = Append(@, r.id)] ELSE @[i]]]
    ELSE c

CollectResourceFiles(c, parsed_model) ==
    FoldSeq(LAMBDA acc, r : CollectResourceFile(acc, r, parsed_model.root_dir),
            c, parsed_model.resources)

\* lines 71-83, run while the graph is still empty
HasChildFolders(folders, folder_info) ==
    \E i \in 1..Len(folders) : folders[i].parent_path = folder_info.folder_path

LeafFolderFileEdgesOf(g, folders, folder_info) ==
    IF HasChildFolders(folders, folder_info) THEN g
    ELSE FoldSeq(LAMBDA acc, file_id :
                    IF has_node(acc, file_id)
                    THEN add_edge(acc, folder_info.id, file_id, ContainsAttrs)
                    ELSE acc,
                 g, folder_info.files)

LeafFolderFileEdges(g, folders) ==
    FoldSeq(LAMBDA acc, folder_info : LeafFolderFileEdgesOf(acc, folders, folder_info),
            g, folders)

\* lines 236-241, had the edge run from the child to its parent
FolderFolderEdgeOf_Reversed(g, folders, folder_info) ==
    LET parent_folder_id == S_folder_colon \o folder_info.parent_path
    IN  IF folder_info.parent_path # <<>>
           /\ HasKey(folders, parent_folder_id) /\ has_node(g, parent_folder_id)
        THEN add_edge(g, folder_info.id, parent_folder_id, ContainsAttrs)
        ELSE g

\* lines 85-91 and 235-241
FolderFolderEdgeOf(g, folders, folder_info) ==
    LET parent_folder_id == S_folder_colon \o folder_info.parent_path
    IN  IF folder_info.parent_path # <<>>
           /\ HasKey(folders, parent_folder_id) /\ has_node(g, parent_folder_id)
        THEN add_edge(g, parent_folder_id, folder_info.id, ContainsAttrs)
        ELSE g

FolderFolderEdges(g, folders) ==
    FoldSeq(LAMBDA acc, folder_info : FolderFolderEdgeOf(acc, folders, folder_info),
            g, folders)

\* lines 96-111
ModuleType(m) ==
    IF IsSourceModuleId(m.id) THEN "source_module"
    ELSE IF m.source # <<>> /\ _is_registry_module(m.source) THEN "registry_module"
    ELSE IF m.source # <<>> /\ _is_git_source(m.source) THEN "git_module"
    ELSE "local_module"

\* lines 93-125
AddModuleNodes(g, parsed_model) ==
    FoldSeq(LAMBDA acc, m :
                add_node(acc, m.id,
                    [kind |-> "module", module_type |-> ModuleType(m),
                     name |-> m.name, dir |-> m.dir, source |-> m.source,
                     file_path |-> m.file_path, file_name |-> m.file_name,
                     level |-> 2]),
            g, parsed_model.modules)

\* lines 179-194
AddResourceNodes(g, parsed_model) ==
    FoldSeq(LAMBDA acc, r :
                add_node(acc, r.id,
                    [kind |-> "resource", module_type |-> "terraform_resource",
                     name |-> r.name, type |-> r.type, dir |-> r.dir,
                     file_path |-> r.file_path, file_name |-> r.file_name,
                     level |-> 3]),
            g, parsed_model.resources)

\* file nodes that also carry the number of resources of the file
AddFileNodes_CountResources(g, terraform_files) ==
    FoldSeq(LAMBDA acc, file_info :
                add_node(acc, file_info.id,
                    [kind |-> "terraform_file", module_type |-> "terraform_file",
                     name |-> file_info.file_name,
                     file_path |-> file_info.file_path,
                     file_name |-> file_info.file_name,
                     folder_path |-> file_info.folder_path,
                     folder_name |-> file_info.folder_name, level |-> 1,
                     resources |-> Len(file_info.resources)]),
            g, terraform_files)

\* lines 196-212
AddFileNodes(g, terraform_files) ==
    FoldSeq(LAMBDA acc, file_info :
                add_node(acc, file_info.id,
                    [kind |-> "terraform_file", module_type |-> "terraform_file",
                     name |-> file_info.file_name,
                     file_path |-> file_info.file_path,
                     file_name |-> file_info.file_name,
                     folder_path |-> file_info.folder_path,
                     folder_name |-> file_info.folder_name, level |-> 1]),
            g, terraform_files)

\* lines 214-227
AddFolderNodes(g, folders) ==
    FoldSeq(LAMBDA acc, folder_info :
                add_node(acc, folder_info.id,
                    [kind |-> "folder", module_type |-> "folder",
                     name |-> folder_info.folder_name,
                     folder_path |-> folder_info.folder_path,
                     display_path |-> folder_info.display_path, level |-> 0]),
            g, folders)

\* lines 229-233
FolderFileEdgesOf(g, folder_info) ==
    FoldSeq(LAMBDA acc, file_id :
                IF has_node(acc, file_id)
                THEN add_edge(acc, folder_info.id, file_id, ContainsAttrs)
                ELSE acc,
            g, folder_info.files)

FolderFileEdges(g, folders) ==
    FoldSeq(LAMBDA acc, folder_info : FolderFileEdgesOf(acc, folder_info), g, folders)

\* the file loop without its resource half
FileContainsEdgesOf_ModulesOnly(g, file_info, include) ==
    FoldSeq(LAMBDA acc, module_id :
                IF has_node(acc, module_id)
                THEN add_edge(acc, file_info.id, module_id, ContainsAttrs)
                ELSE acc,
            g, file_info.modules)

\* lines 243-253
FileContainsEdgesOf(g, file_info, include) ==
    LET g1 == FoldSeq(LAMBDA acc, module_id :
                        IF has_node(acc, module_id)
                        THEN add_edge(acc, file_info.id, module_id, ContainsAttrs)
                        ELSE acc,
                      g, file_info.modules)
    IN  IF include
        THEN FoldSeq(LAMBDA acc, resource_id :
                        IF has_node(acc, resource_id)
                        THEN add_edge(acc, file_info.id, resource_id, ContainsAttrs)
                        ELSE acc,
                     g1, file_info.resources)
        ELSE g1

FileContainsEdges(g, terraform_files, include) ==
    FoldSeq(LAMBDA acc, file_info : FileContainsEdgesOf(acc, file_info, include),
            g, terraform_files)

\* lines 364-371
_resolve_module_like_refs(parsed_model, refs) ==
    FoldSeq(LAMBDA targets, r :
                IF StartsWith(r, S_module_dot)
                THEN targets \o IndexGet(parsed_model.name_index, Split1(r, S_dot)[2])
                ELSE targets,
            <<>>, refs)

\* the resolution without the var., local. and data. exclusion
_resolve_resource_refs_AnyDotted(parsed_model, refs) ==
    FoldSeq(LAMBDA targets, r :
                IF StartsWith(r, S_module_dot)
                THEN targets \o IndexGet(parsed_model.name_index, Split1(r, S_dot)[2])
                ELSE IF Contains(r, S_dot)
                THEN targets \o IndexGet(parsed_model.name_index, r)
                ELSE targets,
            <<>>, refs)

\* lines 373-384
_resolve_resource_refs(parsed_model, refs) ==
    FoldSeq(LAMBDA targets, r :
                IF StartsWith(r, S_module_dot)
                THEN targets \o IndexGet(parsed_model.name_index, Split1(r, S_dot)[2])
                ELSE IF /\ Contains(r, S_dot)
                        /\ ~StartsWith(r, S_var_dot)
                        /\ ~StartsWith(r, S_local_dot)
                        /\ ~StartsWith(r, S_data_dot)
                THEN targets \o IndexGet(parsed_model.name_index, r)
                ELSE targets,
            <<>>, refs)

\* lines 261-264, had the has_node test been left out
ExplicitEdgesOf_Unguarded(g, parsed_model, m) ==
    FoldSeq(LAMBDA acc, tgt : add_edge(acc, m.id, tgt, NoAttrs),
            g, _resolve_module_like_refs(parsed_model, m.explicit_deps))

\* lines 261-264: the edge carries no attribute
ExplicitEdgesOf(g, parsed_model, m) ==
    FoldSeq(LAMBDA acc, tgt :
                IF has_node(acc, tgt) THEN add_edge(acc, m.id, tgt, NoAttrs) ELSE acc,
            g, _resolve_module_like_refs(parsed_model, m.explicit_deps))

\* lines 255-264, had Git and Registry modules not been skipped
ExplicitDependencyEdges_NoSkip(g, parsed_model) ==
    FoldSeq(LAMBDA acc, m : ExplicitEdgesOf(acc, parsed_model, m),
            g, parsed_model.modules)

\* lines 255-264
ExplicitDependencyEdges(g, parsed_model) ==
    FoldSeq(LAMBDA acc, m :
                IF IsExternalSource(m) THEN acc
                ELSE ExplicitEdgesOf(acc, parsed_model, m),
            g, parsed_model.modules)

\* lines 273-279, had the file paths not been compared
ImplicitEdgesOfRef_AnyFile(g, parsed_model, m, ref_name) ==
    FoldSeq(LAMBDA acc, tgt :
                IF has_node(acc, tgt)
                THEN add_edge(acc, m.id, tgt,
                        [edge_type |-> "data_dependency",
                         label |-> S_uses \o ref_name])
                ELSE acc,
            g, IndexGet(parsed_model.name_index, ref_name))

\* lines 273-279, had only the first identity under the name been linked
ImplicitEdgesOfRef_FirstTarget(g, parsed_model, m, ref_name) ==
    FoldSeq(LAMBDA acc, tgt :
                IF has_node(acc, tgt)
                THEN IF /\ HasKey(parsed_model.modules, tgt)
                        /\ Lookup(parsed_model.modules, tgt).file_path = m.file_path
                     THEN acc
                     ELSE add_edge(acc, m.id, tgt,
                            [edge_type |-> "data_dependency",
                             label |-> S_uses \o ref_name])
                ELSE acc,
            g, LET ids == IndexGet(parsed_model.name_index, ref_name)
               IN  IF ids = <<>> THEN ids ELSE <<Head(ids)>>)

\* lines 273-279
ImplicitEdgesOfRef(g, parsed_model, m, ref_name) ==
    FoldSeq(LAMBDA acc, tgt :
                IF has_node(acc, tgt)
                THEN IF /\ HasKey(parsed_model.modules, tgt)
                        /\ Lookup(parsed_model.modules, tgt).file_path = m.file_path
                     THEN acc
                     ELSE add_edge(acc, m.id, tgt,
                            [edge_type |-> "data_dependency",
                             label |-> S_uses \o ref_name])
                ELSE acc,
            g, IndexGet(parsed_model.name_index, ref_name))

\* lines 266-279
ImplicitDependencyEdges(g, parsed_model) ==
    FoldSeq(LAMBDA acc, m :
                IF IsExternalSource(m) THEN acc
                ELSE FoldSeq(LAMBDA acc2, ref_name :
                                ImplicitEdgesOfRef(acc2, parsed_model, m, ref_name),
                             acc, m.implicit_module_refs),
            g, parsed_model.modules)

\* lines 283-288
ResourceDependencyEdges(g, parsed_model) ==
    FoldSeq(LAMBDA acc, r :
                FoldSeq(LAMBDA acc2, tgt :
                            IF has_node(acc2, tgt)
                            THEN add_edge(acc2, r.id, tgt, [edge_type |-> "depends_on"])
                            ELSE acc2,
                        acc, _resolve_resource_refs(parsed_model, r.explicit_deps)),
            g, parsed_model.resources)

\* lines 433-460
_parse_registry_source(s) ==
    IF Contains(s, S_slash_slash)
    THEN LET main_part == Split1(s, S_slash_slash)[1]
             sub_part == Split1(s, S_slash_slash)[2]
             parts == Split(main_part, S_slash)
             sub_parts == Split(sub_part, S_slash)
         IN  <<IF Len(parts) >= 2 THEN parts[2] ELSE main_part,
               S_submodule \o sub_parts[Len(sub_parts)]>>
    ELSE LET parts == Split(s, S_slash)
         IN  <<IF Len(parts) >= 2 THEN parts[2] ELSE s, S_main_module>>

\* the entity identity, had it been built from the module instead of the source
RegistryId_PerModule(m) == S_registry_colon \o m.id

\* line 293
RegistryId(m) == S_registry_colon \o m.source

\* lines 292-313, one module
RegistryEntityOf(g, m) ==
    IF m.source # <<>> /\ _is_registry_module(m.source)
    THEN LET registry_id == RegistryId(m)
             g1 == IF has_node(g, registry_id) THEN g
                   ELSE add_node(g, registry_id,
                            [kind |-> "registry_entity",
                             module_type |-> "registry_entity",
                             name |-> _parse_registry_source(m.source)[1],
                             submodule |-> _parse_registry_source(m.source)[2],
                             source |-> m.source, level |-> 3])
         IN  add_edge(g1, m.id, registry_id, NoAttrs)
    ELSE g

\* lines 290-313
RegistryEntities(g, parsed_model) ==
    FoldSeq(LAMBDA acc, m : RegistryEntityOf(acc, m), g, parsed_model.modules)

\* the literals of _parse_git_source and _extract_git_url
GitLit ==
    [http_scheme |-> <<"h","t","t","p",":","/","/">>,
     path_colon |-> <<"p","a","t","h",":"," ">>,
     root |-> <<"r","o","o","t">>,
     qmark |-> <<"?">>, amp |-> <<"&">>, eq |-> <<"=">>, hash |-> <<"#">>,
     plus |-> <<"+">>, space |-> <<" ">>, at |-> <<"@">>,
     pct_2F |-> <<"%","2","F">>,
     ref |-> <<"r","e","f">>,
     main |-> <<"m","a","i","n">>,
     dot_git_slash_slash |-> <<".","g","i","t","/","/">>,
     gitlab |-> <<"g","i","t","l","a","b">>,
     tree |-> <<"/","t","r","e","e">>,
     gitlab_tree |-> <<"/","-","/","t","r","e","e">>,
     whitespace |-> {" ", "\t", "\n", "\r"},
     upper |-> <<"A","B","C","D","E","F","G","H","I","J","K","L","M",
                 "N","O","P","Q","R","S","T","U","V","W","X","Y","Z">>,
     lower |-> <<"a","b","c","d","e","f","g","h","i","j","k","l","m",
                 "n","o","p","q","r","s","t","u","v","w","x","y","z">>]

\* s.replace(old, new): every occurrence, left to right, without overlap
Replace(s, old, new) == Join(Split(s, old), new)

\* s.strip(chars), s.lstrip(chars), s.rstrip(chars)
StripChars(s, chars, left, right) ==
    LET keep == {i \in 1..Len(s) : s[i] \notin chars}
        lo == IF left THEN CHOOSE i \in keep : \A j \in keep : i <= j ELSE 1
        hi == IF right THEN CHOOSE i \in keep : \A j \in keep : i >= j ELSE Len(s)
    IN  IF keep = {} THEN <<>> ELSE SubSeq(s, lo, hi)

\* lines 507-551
_parse_git_source(s) ==
    LET git_url == IF StartsWith(s, S_git_scheme) THEN SubSeq(s, 6, Len(s)) ELSE s
        parts == Split(git_url, S_slash_slash)
        url_part ==
            IF Contains(git_url, S_slash_slash)
            THEN IF StartsWith(git_url, S_https) \/ StartsWith(git_url, GitLit.http_scheme)
                 THEN Split(git_url, S_slash_slash)[1]
                 ELSE parts[1]
            ELSE git_url
        path_part ==
            IF Contains(git_url, S_slash_slash)
            THEN IF StartsWith(git_url, S_https) \/ StartsWith(git_url, GitLit.http_scheme)
                 THEN Split(git_url, S_slash_slash)[2]
                 ELSE IF Len(parts) > 1 THEN parts[2] ELSE <<>>
            ELSE <<>>
        segments == Split(url_part, S_slash)
        last_segment == Replace(segments[Len(segments)], S_dot_git, <<>>)
        url_parts == Split(Replace(Replace(url_part, S_https, <<>>),
                                   GitLit.http_scheme, <<>>), S_slash)
        repo_name ==
            IF \/ Contains(url_part, S_github)
               \/ Contains(url_part, S_gitlab)
               \/ Contains(url_part, S_bitbucket)
            THEN IF Len(url_parts) >= 3
                 THEN url_parts[2] \o S_slash \o Replace(url_parts[3], S_dot_git, <<>>)
                 ELSE last_segment
            ELSE last_segment
        path_display == IF path_part # <<>> THEN GitLit.path_colon \o path_part
                        ELSE GitLit.root
    IN  <<repo_name, path_display>>

\* urllib.parse.parse_qs(q).get("ref", ["main"])[0] or "main": the fields
\* between "&", name and value cut at the first "=", "+" read as a space
\* and %2F as "/", fields with a blank value dropped, the first value of
\* the name ref
QueryRef(q) ==
    LET fields == Split(q, GitLit.amp)
        Unquote(t) == Replace(Replace(t, GitLit.plus, GitLit.space),
                              GitLit.pct_2F, S_slash)
        NameOf(f) == Unquote(Split1(f, GitLit.eq)[1])
        ValueOf(f) == IF Contains(f, GitLit.eq)
                      THEN Unquote(Split1(f, GitLit.eq)[2]) ELSE <<>>
        hits == {i \in 1..Len(fields) :
                    NameOf(fields[i]) = GitLit.ref /\ ValueOf(fields[i]) # <<>>}
    IN  IF hits = {} THEN GitLit.main
        ELSE ValueOf(fields[CHOOSE i \in hits : \A j \in hits : i <= j])

\* urlparse(url).hostname or "", lowered, for a url that starts with
\* http:// or https://: the text between "//" and the next "/", without
\* the user part before the last "@" and without the port after ":"
HostOf(url) ==
    LET netloc == Split1(Split1(url, S_slash_slash)[2], S_slash)[1]
        at_parts == Split(netloc, GitLit.at)
        hostinfo == at_parts[Len(at_parts)]
        hostname == Split1(hostinfo, S_colon)[1]
    IN  [i \in 1..Len(hostname) |->
            IF \E k \in 1..26 : GitLit.upper[k] = hostname[i]
            THEN GitLit.lower[CHOOSE k \in 1..26 : GitLit.upper[k] = hostname[i]]
            ELSE hostname[i]]

\* lines 597-680
_extract_git_url(s) ==
    IF s = <<>> THEN <<>>
    ELSE LET raw == IF StartsWith(s, S_git_scheme) THEN SubSeq(s, 6, Len(s)) ELSE s
         IN  IF ~Contains(raw, S_dot_git) THEN s
             ELSE LET has_query == Contains(raw, GitLit.qmark)
                      ref == IF has_query
                             THEN StripChars(QueryRef(Split1(raw, GitLit.qmark)[2]),
                                             GitLit.whitespace, TRUE, TRUE)
                             ELSE GitLit.main
                      before_q == Split1(IF has_query THEN Split1(raw, GitLit.qmark)[1]
                                         ELSE raw, GitLit.hash)[1]
                      has_sub == Contains(before_q, GitLit.dot_git_slash_slash)
                      sub_path == IF has_sub
                                  THEN StripChars(Split1(before_q, GitLit.dot_git_slash_slash)[2],
                                                  {"/"}, TRUE, TRUE)
                                  ELSE <<>>
                      repo_url == StripChars(
                                      IF has_sub
                                      THEN Split1(before_q, GitLit.dot_git_slash_slash)[1] \o S_dot_git
                                      ELSE before_q,
                                      {"/"}, FALSE, TRUE)
                      repo_base == IF Len(repo_url) >= 4
                                      /\ SubSeq(repo_url, Len(repo_url) - 3, Len(repo_url)) = S_dot_git
                                   THEN SubSeq(repo_url, 1, Len(repo_url) - 4)
                                   ELSE repo_url
                      parse_target == IF StartsWith(repo_base, GitLit.http_scheme)
                                         \/ StartsWith(repo_base, S_https)
                                      THEN repo_base ELSE S_https \o repo_base
                      host == HostOf(parse_target)
                      tree_segment == IF Contains(host, GitLit.gitlab)
                                      THEN GitLit.gitlab_tree ELSE GitLit.tree
                  IN  IF sub_path # <<>>
                      THEN repo_base \o tree_segment \o S_slash \o ref \o S_slash \o sub_path
                      ELSE repo_base \o tree_segment \o S_slash \o ref

GitId(m) == S_git_colon \o m.source

\* lines 317-338, one module
GitEntityOf(g, m) ==
    IF m.source # <<>> /\ _is_git_source(m.source)
    THEN LET git_id == GitId(m)
             g1 == IF has_node(g, git_id) THEN g
                   ELSE add_node(g, git_id,
                            [kind |-> "git_entity", module_type |-> "git_entity",
                             name |-> _parse_git_source(m.source)[1],
                             path |-> _parse_git_source(m.source)[2],
                             source |-> m.source,
                             git_url |-> _extract_git_url(m.source), level |-> 3])
         IN  add_edge(g1, m.id, git_id, NoAttrs)
    ELSE g

\* lines 315-338
GitEntities(g, parsed_model) ==
    FoldSeq(LAMBDA acc, m : GitEntityOf(acc, m), g, parsed_model.modules)

_find_source_modules_AnyName(parsed_model, module, current_mid) ==
    IF module.source = <<>> \/ ~_is_local_source(module.source) THEN <<>>
    ELSE FoldSeq(LAMBDA found, m :
                    IF m.id = current_mid THEN found
                    ELSE IF IsSourceModuleId(m.id) THEN Append(found, m.id)
                    ELSE found,
                 <<>>, parsed_model.modules)

\* lines 462-493
_find_source_modules(parsed_model, module, current_mid) ==
    IF module.source = <<>> \/ ~_is_local_source(module.source) THEN <<>>
    ELSE LET base_path == IF module.dir = <<".">> THEN parsed_model.root_dir
                          ELSE PathJoin(parsed_model.root_dir, module.dir)
             source_dir_name == PathName(Resolve(PathJoin(base_path, module.source)))
         IN  FoldSeq(LAMBDA found, m :
                        IF m.id = current_mid THEN found
                        ELSE IF IsSourceModuleId(m.id) /\ m.name = source_dir_name
                        THEN Append(found, m.id)
                        ELSE found,
                     <<>>, parsed_model.modules)

ProvidesAttrs == [edge_type |-> "provides", style |-> "solid"]

\* lines 340-348
ProvidesEdges(g, parsed_model) ==
    FoldSeq(LAMBDA acc, m :
                IF m.source # <<>> /\ _is_local_source(m.source)
                THEN FoldSeq(LAMBDA acc2, source_mid :
                                IF has_node(acc2, source_mid)
                                THEN add_edge(acc2, source_mid, m.id, ProvidesAttrs)
                                ELSE acc2,
                             acc, _find_source_modules(parsed_model, m, m.id))
                ELSE acc,
            g, parsed_model.modules)

\* lines 354-360, one source module
SourceModuleContainsOf(g, m, terraform_files) ==
    FoldSeq(LAMBDA acc, file_info :
                IF m.dir # <<>> /\ StartsWith(file_info.file_path, m.dir \o S_slash)
                THEN add_edge(acc, m.id, file_info.id, ContainsAttrs)
                ELSE IF m.dir # <<>> /\ m.dir = file_info.folder_path
                THEN add_edge(acc, m.id, file_info.id, ContainsAttrs)
                ELSE acc,
            g, terraform_files)

\* lines 350-360
SourceModuleContainsEdges(g, parsed_model, terraform_files) ==
    FoldSeq(LAMBDA acc, m :
                IF IsSourceModuleId(m.id)
                THEN SourceModuleContainsOf(acc, m, terraform_files)
                ELSE acc,
            g, parsed_model.modules)

\* the i-th pass of build_graph over its locals terraform_files, folders and G
BuildPass(st, i, parsed_model, include) ==
    CASE i = 1 ->
            LET c == CollectModuleFiles(parsed_model)
            IN  [st EXCEPT !.terraform_files = c.terraform_files, !.folders = c.folders]
      [] i = 2 -> [st EXCEPT !.G = LeafFolderFileEdges(@, st.folders)]
      [] i = 3 -> [st EXCEPT !.G = FolderFolderEdges(@, st.folders)]
      [] i = 4 -> [st EXCEPT !.G = AddModuleNodes(@, parsed_model)]
      [] i = 5 ->
            IF include
            THEN LET c == CollectResourceFiles(
                            [terraform_files |-> st.terraform_files,
                             folders |-> st.folders], parsed_model)
                 IN  [st EXCEPT !.terraform_files = c.terraform_files,
                                !.folders = c.folders]
            ELSE st
      [] i = 6 -> IF include THEN [st EXCEPT !.G = AddResourceNodes(@, parsed_model)]
                  ELSE st
      [] i = 7 -> [st EXCEPT !.G = AddFileNodes(@, st.terraform_files)]
      [] i = 8 -> [st EXCEPT !.G = AddFolderNodes(@, st.folders)]
      [] i = 9 -> [st EXCEPT !.G = FolderFileEdges(@, st.folders)]
      [] i = 10 -> [st EXCEPT !.G = FolderFolderEdges(@, st.folders)]
      [] i = 11 -> [st EXCEPT !.G = FileContainsEdges(@, st.terraform_files, include)]
      [] i = 12 -> [st EXCEPT !.G = ExplicitDependencyEdges(@, parsed_model)]
      [] i = 13 -> [st EXCEPT !.G = ImplicitDependencyEdges(@, parsed_model)]
      [] i = 14 -> IF include
                   THEN [st EXCEPT !.G = ResourceDependencyEdges(@, parsed_model)]
                   ELSE st
      [] i = 15 -> [st EXCEPT !.G = RegistryEntities(@, parsed_model)]
      [] i = 16 -> [st EXCEPT !.G = GitEntities(@, parsed_model)]
      [] i = 17 -> [st EXCEPT !.G = ProvidesEdges(@, parsed_model)]
      [] i = 18 -> [st EXCEPT !.G = SourceModuleContainsEdges(@, parsed_model,
                                                            st.terraform_files)]

\* the whole of build_graph: its passes in the order of the code
build_graph(parsed_model, include) ==
    FoldSeq(LAMBDA st, i : BuildPass(st, i, parsed_model, include),
            [terraform_files |-> <<>>, folders |-> <<>>, G |-> EmptyGraph],
            [i \in 1..18 |-> i]).G

(***************************************************************************)
(* find_cycles (lines 386-390): list(nx.simple_cycles(G)).  simple_cycles  *)
(* is the library's enumeration of elementary circuits: it never raises    *)
(* NetworkXNoCycle, so the except branch is dead.  It is modelled as a     *)
(* depth-first search that roots every circuit at its first node in node   *)
(* order and extends paths through later nodes only.                       *)
(***************************************************************************)
RECURSIVE SetToSeq(_)
SetToSeq(S) ==
    IF S = {} THEN <<>>
    ELSE LET x == CHOOSE y \in S : TRUE IN <<x>> \o SetToSeq(S \ {x})

Range(s) == {s[i] : i \in 1..Len(s)}

\* the successors of node n
Successors(g, n) == {e[2] : e \in {d \in DOMAIN g.edges : d[1] = n}}

\* the circuits that start with path, rooted at path[1]; later holds the nodes
\* after the root in node order
RECURSIVE CyclesFrom(_, _, _)
CyclesFrom(g, later, path) ==
    LET last == path[Len(path)]
        closing == IF has_edge(g, last, path[1]) THEN <<path>> ELSE <<>>
        onward == (Successors(g, last) \cap later) \ Range(path)
    IN  FoldSeq(LAMBDA acc, w : acc \o CyclesFrom(g, later, Append(path, w)),
                closing, SetToSeq(onward))

simple_cycles(g) ==
    LET order == SetToSeq(DOMAIN g.nodes)
    IN  FoldSeq(LAMBDA acc, r :
                    acc \o CyclesFrom(g, {order[j] : j \in (r + 1)..Len(order)},
                                      <<order[r]>>),
                <<>>, [j \in 1..Len(order) |-> j])

\* find_cycles, had it asked for one cycle (nx.find_cycle) instead of all
find_cycles_first(g) ==
    LET all == simple_cycles(g)
    IN  IF all = <<>> THEN <<>> ELSE <<all[1]>>

find_cycles(g) == simple_cycles(g)

(***************************************************************************)
(* Inputs.  A tree holds module blocks and resource blocks, each in one of *)
(* the Terraform files.  A module block gives its name, its source, its    *)
(* depends_on list and the names its inputs mention as module.<name>       *)
(* (sorted, as _find_module_refs and sorted() leave them).                 *)
(***************************************************************************)
Src_local == <<".","/","a","/","n","e","t">>
Src_registry == <<"n","/","v","/","p">>
Src_github == <<"g","i","t","h","u","b",".","c","o","m","/","o","/","r">>
Src_git == <<"g","i","t",":",":","h","/","r",".","g","i","t">>
Ref_module_x == <<"m","o","d","u","l","e",".","x">>
Ref_module_aws_z == <<"m","o","d","u","l","e",".","a","w","s",".","z">>
Ref_aws_z == <<"a","w","s",".","z">>
Ref_var_v == <<"v","a","r",".","v">>

ModuleSources == {Src_local, Src_registry, Src_github, Src_git}

\* depends_on and the referenced names of a module block
ModuleDeps ==
    {[depends_on |-> <<>>, refs |-> <<>>],
     [depends_on |-> <<Ref_module_x, Ref_module_aws_z>>, refs |-> <<N_net, N_x>>]}

\* where a module block may stand and what it is called: x and net side by
\* side in /r/main.tf, another x in /r/a/net/main.tf
ModulePlaces == {<<1, N_x>>, <<1, N_net>>, <<2, N_x>>}

\* a block with a local source comes with and without dependencies, one with
\* an external source always declares them
ModuleBlocks ==
    {b \in {[file |-> pl[1], name |-> pl[2], source |-> s,
             depends_on |-> d.depends_on, refs |-> d.refs] :
                pl \in ModulePlaces, s \in ModuleSources, d \in ModuleDeps} :
        b.source # Src_local => b.depends_on # <<>>}

ResourceBlocks ==
    {[file |-> 1, type |-> N_aws, name |-> N_z,
      depends_on |-> <<Ref_aws_z>>],
     [file |-> 2, type |-> N_aws, name |-> N_z,
      depends_on |-> <<Ref_module_x, Ref_var_v>>],
     \* a resource whose type.name reads like a variable reference
     [file |-> 1, type |-> <<"v","a","r">>, name |-> <<"v">>,
      depends_on |-> <<Ref_var_v>>]}

\* the subsets of S with at most k elements
RECURSIVE SubsetsUpTo(_, _)
SubsetsUpTo(S, k) ==
    IF k = 0 THEN {{}}
    ELSE LET prev == SubsetsUpTo(S, k - 1)
         IN  prev \cup {p \cup {x} : p \in prev, x \in S}

Trees ==
    {[root |-> root, modules |-> SetToSeq(ms), resources |-> SetToSeq(rs)] :
        root \in Roots,
        ms \in SubsetsUpTo(ModuleBlocks, MaxModules),
        rs \in SubsetsUpTo(ResourceBlocks, MaxResources)}

CycleNodeNames == <<<<"A">>, <<"B">>, <<"C">>, <<"D">>, <<"E">>>>

CycleNodes == {CycleNodeNames[i] : i \in 1..MaxCycleNodes}

NoTree == [root |-> [abs |-> TRUE, parts |-> <<>>], modules |-> <<>>, resources |-> <<>>]

NoModel ==
    [root_dir |-> NoTree.root, modules |-> <<>>, resources |-> <<>>,
     name_index |-> NoAttrs, parsed_paths |-> {}]

(***************************************************************************)
(* Actions.  tfla.py main: parse_directory, build_graph, find_cycles.      *)
(***************************************************************************)
Init ==
    /\ pc = "tree"
    /\ fs \in Trees
    /\ parsed = NoModel
    /\ include_resources = FALSE
    /\ G = EmptyGraph
    /\ cycles = <<>>
    /\ source = <<>>
    /\ verdict = NoVerdict
    /\ passes_done = {}
    /\ build_locals = <<>>

Parse ==
    /\ pc = "tree"
    /\ parsed' = parse_directory(fs.root, fs)
    /\ pc' = "parsed"
    /\ UNCHANGED <<source, verdict, fs, include_resources, G, cycles, passes_done, build_locals>>

Build ==
    /\ pc = "parsed"
    /\ \E include \in BOOLEAN :
        /\ include_resources' = include
        /\ G' = build_graph(parsed, include)
    /\ pc' = "built"
    /\ UNCHANGED <<source, verdict, fs, parsed, cycles, passes_done, build_locals>>

FindCycles ==
    /\ pc = "built"
    /\ cycles' = find_cycles(G)
    /\ pc' = "reported"
    /\ UNCHANGED <<source, verdict, fs, parsed, include_resources, G, passes_done, build_locals>>

Next == Parse \/ Build \/ FindCycles

Spec == Init /\ [][Next]_vars

\* the classifier on its own: one source string, the three predicates
InitClassify ==
    /\ pc = "source"
    /\ source \in SourceStrings
    /\ verdict = NoVerdict
    /\ fs = NoTree
    /\ parsed = NoModel
    /\ include_resources = FALSE
    /\ G = EmptyGraph
    /\ cycles = <<>>
    /\ passes_done = {}
    /\ build_locals = <<>>

Classify ==
    /\ pc = "source"
    /\ verdict' = Classification(source)
    /\ pc' = "classified"
    /\ UNCHANGED <<source, fs, parsed, include_resources, G, cycles, passes_done, build_locals>>

SpecClassify == InitClassify /\ [][Classify]_vars

\* find_cycles on its own: any directed graph over CycleNodes
InitCycles ==
    /\ pc = "built"
    /\ \E es \in SUBSET (CycleNodes \X CycleNodes) :
        G = [nodes |-> [n \in CycleNodes |-> NoAttrs], edges |-> [e \in es |-> NoAttrs]]
    /\ cycles = <<>>
    /\ fs = NoTree
    /\ parsed = NoModel
    /\ include_resources = FALSE
    /\ source = <<>>
    /\ verdict = NoVerdict
    /\ passes_done = {}
    /\ build_locals = <<>>

SpecCycles == InitCycles /\ [][FindCycles]_vars

\* local sources that name the directories /r/a/net, /r/a and /r in several
\* spellings, and a non-local source whose last segment is also "net"
LocalSources ==
    {Src_local,                             \* "./a/net"
     <<".","/","a">>,                       \* "./a"
     <<".",".","/","n","e","t">>,           \* "../net"
     <<"a">>,                               \* "a"
     <<".",".","/",".",".">>,               \* "../..", back to the root
     <<"n","/","v","/","n","e","t">>}       \* "n/v/net", not local

LocalModuleBlocks ==
    {[file |-> pl[1], name |-> pl[2], source |-> s,
      depends_on |-> <<>>, refs |-> <<>>] :
        pl \in ModulePlaces, s \in LocalSources}

LocalTrees ==
    {[root |-> root, modules |-> SetToSeq(ms), resources |-> <<>>] :
        root \in Roots,
        ms \in SubsetsUpTo(LocalModuleBlocks, MaxModules)}

\* the same run over trees whose modules call local directories
InitLocal ==
    /\ pc = "tree"
    /\ fs \in LocalTrees
    /\ parsed = NoModel
    /\ include_resources = FALSE
    /\ G = EmptyGraph
    /\ cycles = <<>>
    /\ source = <<>>
    /\ verdict = NoVerdict
    /\ passes_done = {}
    /\ build_locals = <<>>

SpecLocal == InitLocal /\ [][Next]_vars

\* git and registry sources in their spellings: [git::][scheme]host/path
\* [.git][//subpath][?query], and two registry sources with a submodule
SourceForms ==
    LET prefixes == {<<>>, S_git_scheme}
        schemes == {<<>>, S_https, <<"s","s","h",":","/","/","g","i","t","@">>}
        hosts == {<<"e","x","a","m","p","l","e",".","c","o","m">>,
                  <<"g","i","t","l","a","b",".","e","x","a","m","p","l","e",".","c","o","m">>,
                  S_github}
        paths == {<<"/","o","r","g","/","r","e","p","o">>, <<"/","r","e","p","o">>}
        suffixes == {<<>>, S_dot_git}
        subpaths == {<<>>, S_slash_slash,
                     <<"/","/","s","u","b","/","d","i","r">>,
                     <<"/","/","s","u","b","/","d","i","r","/">>}
        queries == {<<>>,
                    <<"?","r","e","f","=","v","1",".","2",".","3">>,
                    <<"?","r","e","f","=","m","a","i","n">>,
                    <<"?","r","e","f","=">>}
    IN  {Concat(<<p, sc, h, pa, g, sub, q>>) :
            p \in prefixes, sc \in schemes, h \in hosts, pa \in paths,
            g \in suffixes, sub \in subpaths, q \in queries}
        \cup {<<"t","e","r","r","a","f","o","r","m","-","a","w","s","-","m","o","d","u","l","e","s","/","v","p","c","/","a","w","s">>
                  \o <<"/","/","s","u","b","m","o","d","u","l","e","s","/","v","p","c","-","e","n","d","p","o","i","n","t","s">>,
              <<"v","p","c">>
                  \o <<"/","/","s","u","b","m","o","d","u","l","e","s","/","v","p","c","-","e","n","d","p","o","i","n","t","s">>}

\* a tree with one module block whose source is one of the forms
InitSource ==
    /\ pc = "tree"
    /\ fs \in {[root |-> [abs |-> TRUE, parts |-> <<N_r>>],
                modules |-> <<[file |-> 1, name |-> N_x, source |-> s,
                               depends_on |-> <<>>, refs |-> <<>>]>>,
                resources |-> <<>>] : s \in SourceForms}
    /\ parsed = NoModel
    /\ include_resources = FALSE
    /\ G = EmptyGraph
    /\ cycles = <<>>
    /\ source = <<>>
    /\ verdict = NoVerdict
    /\ passes_done = {}
    /\ build_locals = <<>>

SpecSource == InitSource /\ [][Next]_vars

(***************************************************************************)
(* build_graph pass by pass.  Lines 16-227 make the nodes; lines 229-360   *)
(* are the edge-derivation passes, each a loop of its own over the entity  *)
(* model.  Here they are applied one at a time, in any order.              *)
(***************************************************************************)
\* the edge-derivation passes and the steps of BuildPass each consists of
EdgePasses ==
    [containment |-> <<9, 10, 11, 18>>,
     explicit_dependency |-> <<12>>,
     implicit_dependency |-> <<13>>,
     resource_dependency |-> <<14>>,
     external_entity_linkage |-> <<15, 16>>,
     source_module_provision |-> <<17>>]

\* build_graph's locals terraform_files, folders and G when line 229 is
\* reached
NodesBuilt(parsed_model, include) ==
    FoldSeq(LAMBDA st, i : BuildPass(st, i, parsed_model, include),
            [terraform_files |-> <<>>, folders |-> <<>>, G |-> EmptyGraph],
            [i \in 1..8 |-> i])

InitPasses ==
    /\ pc = "tree"
    /\ fs \in {[root |-> [abs |-> TRUE, parts |-> <<N_r>>],
                 modules |-> SetToSeq(ms), resources |-> SetToSeq(rs)] :
                ms \in SubsetsUpTo({b \in ModuleBlocks :
                                        /\ b.depends_on # <<>>
                                        /\ b.source \in {Src_local, Src_github}},
                                   MaxModules),
                rs \in SubsetsUpTo(ResourceBlocks, MaxResources)}
    /\ parsed = NoModel
    /\ include_resources = FALSE
    /\ G = EmptyGraph
    /\ cycles = <<>>
    /\ source = <<>>
    /\ verdict = NoVerdict
    /\ passes_done = {}
    /\ build_locals = <<>>

AddNodes ==
    /\ pc = "parsed"
    /\ \E include \in BOOLEAN :
        /\ include_resources' = include
        /\ build_locals' = NodesBuilt(parsed, include)
    /\ G' = build_locals'.G
    /\ pc' = "nodes"
    /\ UNCHANGED <<source, verdict, fs, parsed, cycles, passes_done>>

EdgePass(p) ==
    /\ pc = "nodes"
    /\ p \notin passes_done
    /\ G' = FoldSeq(LAMBDA st, i : BuildPass(st, i, parsed, include_resources),
                    [terraform_files |-> build_locals.terraform_files,
                     folders |-> build_locals.folders, G |-> G],
                    EdgePasses[p]).G
    /\ passes_done' = passes_done \cup {p}
    /\ pc' = IF passes_done' = DOMAIN EdgePasses THEN "built" ELSE "nodes"
    /\ UNCHANGED <<source, verdict, fs, parsed, include_resources, cycles, build_locals>>

NextPasses ==
    \/ Parse
    \/ AddNodes
    \/ \E p \in DOMAIN EdgePasses : EdgePass(p)
    \/ FindCycles

SpecPasses == InitPasses /\ [][NextPasses]_vars

\* a second call of build_graph on the model a first call has used, where
\* the graph of the first call carries over
Rebuild_OnOldGraph ==
    /\ pc \in {"built", "rebuilt"}
    /\ \E include \in BOOLEAN :
        /\ include_resources' = include
        /\ G' = FoldSeq(LAMBDA st, i : BuildPass(st, i, parsed, include),
                        [terraform_files |-> <<>>, folders |-> <<>>, G |-> G],
                        [i \in 1..18 |-> i]).G
    /\ pc' = "rebuilt"
    /\ UNCHANGED <<source, verdict, fs, parsed, cycles, passes_done, build_locals>>

\* a second call of build_graph on the model a first call has used: G, the
\* file and folder tables are locals of the call (lines 10-14)
Rebuild ==
    /\ pc \in {"built", "rebuilt"}
    /\ \E include \in BOOLEAN :
        /\ include_resources' = include
        /\ G' = build_graph(parsed, include)
    /\ pc' = "rebuilt"
    /\ UNCHANGED <<source, verdict, fs, parsed, cycles, passes_done, build_locals>>

\* the run over the trees of InitPasses with build_graph called again on
\* the same model
SpecRebuild == InitPasses /\ [][Parse \/ Build \/ Rebuild]_vars

(***************************************************************************)
(* Vocabulary of the properties.                                           *)
(***************************************************************************)
Built == pc \in {"built", "reported"}

Modules == Range(parsed.modules)

Resources == Range(parsed.resources)

Nodes == DOMAIN G.nodes

Edges == DOMAIN G.edges

HasKind(n) == n \in Nodes /\ "kind" \in DOMAIN G.nodes[n]

KindOf(n) == IF HasKind(n) THEN G.nodes[n].kind ELSE "none"

EdgeType(e) ==
    IF "edge_type" \in DOMAIN G.edges[e] THEN G.edges[e].edge_type ELSE "none"

IsGitOrRegistry(s) == _is_git_source(s) \/ _is_registry_module(s)

\* the directory a module's source names, resolved against the module's file
SourceDirectory(m) == Resolve(PathJoin(PathParent(ParsePath(m.file_path)), m.source))

\* the calling modules of directory d: module blocks whose Local source is d
Callers(d) ==
    {m \in Modules : /\ ~IsSourceModuleId(m.id)
                     /\ _is_local_source(m.source)
                     /\ SourceDirectory(m) = d}

(***************************************************************************)
(* C1.  Classification is mutually exclusive: for every source string at   *)
(* most one of _is_git_source, _is_registry_module and _is_local_source is *)
(* true.  The code breaks it: "github.com//" is Git and Registry,          *)
(* "./.git" is Git and Local.                                              *)
(***************************************************************************)
C1_MutuallyExclusive ==
    pc = "classified" =>
        /\ ~(verdict.git /\ verdict.registry)
        /\ ~(verdict.git /\ verdict.local)
        /\ ~(verdict.registry /\ verdict.local)

(***************************************************************************)
(* C2.  A module whose source is Git or Registry originates no dependency  *)
(* edge: every edge leaving it ends at a registry or git entity and        *)
(* carries no edge type (so none is depends_on or data_dependency).        *)
(***************************************************************************)
C2_ExternalModuleOriginatesNoDependency ==
    Built =>
        \A m \in Modules :
            IsGitOrRegistry(m.source) =>
                \A e \in Edges :
                    e[1] = m.id =>
                        /\ KindOf(e[2]) \in {"registry_entity", "git_entity"}
                        /\ EdgeType(e) = "none"

\* a built graph with a Git/Registry module whose depends_on and whose input
\* references both resolve to nodes, the latter in another file
C2_Witness ==
    /\ Built
    /\ \E m \in Modules :
        /\ IsGitOrRegistry(m.source)
        /\ \E tgt \in Range(_resolve_module_like_refs(parsed, m.explicit_deps)) :
            tgt \in Nodes
        /\ \E ref \in Range(m.implicit_module_refs) :
            \E t \in Modules :
                /\ t.id \in Range(IndexGet(parsed.name_index, ref))
                /\ t.id \in Nodes
                /\ t.file_path # m.file_path

(***************************************************************************)
(* C3.  Every file node has exactly one incoming contains edge from a      *)
(* folder node, and that folder is the file's immediate parent directory.  *)
(* The code breaks it when root_dir is the filesystem root: the walk up    *)
(* the hierarchy makes no folder for /, so /main.tf has no folder.         *)
(***************************************************************************)
FolderParents(f) ==
    {e \in Edges : e[2] = f /\ KindOf(e[1]) = "folder" /\ EdgeType(e) = "contains"}

C3_OneParentFolderPerFile ==
    Built =>
        \A f \in Nodes :
            KindOf(f) = "terraform_file" =>
                /\ Cardinality(FolderParents(f)) = 1
                /\ \A e \in FolderParents(f) :
                    G.nodes[e[1]].folder_path =
                        PathStr(PathParent(ParsePath(G.nodes[f].file_path)))

(***************************************************************************)
(* C4.  No edge has an endpoint that no node-creation step made: every     *)
(* node of the graph, so every endpoint of every edge, carries a kind; and *)
(* with resources left out no resource identity is a node.                 *)
(***************************************************************************)
C4_NoDanglingEndpoint ==
    Built =>
        /\ \A e \in Edges : HasKind(e[1]) /\ HasKind(e[2])
        /\ \A n \in Nodes : HasKind(n)
        /\ ~include_resources => \A r \in Resources : r.id \notin Nodes

\* resources left out, and a module's depends_on resolves to a resource
C4_Witness ==
    /\ Built
    /\ ~include_resources
    /\ \E m \in Modules :
        /\ ~IsGitOrRegistry(m.source)
        /\ \E r \in Resources :
            r.id \in Range(_resolve_module_like_refs(parsed, m.explicit_deps))

(***************************************************************************)
(* C5.  One entity node per distinct source string: for a module with a    *)
(* Registry source exactly one registry_entity node carries that source    *)
(* and the module has an edge to it; likewise for Git.                     *)
(***************************************************************************)
EntitiesOf(kind, s) ==
    {n \in Nodes : KindOf(n) = kind /\ G.nodes[n].source = s}

C5_OneEntityPerSource ==
    Built =>
        \A m \in Modules :
            /\ _is_registry_module(m.source) =>
                /\ Cardinality(EntitiesOf("registry_entity", m.source)) = 1
                /\ \A n \in EntitiesOf("registry_entity", m.source) : <<m.id, n>> \in Edges
            /\ _is_git_source(m.source) =>
                /\ Cardinality(EntitiesOf("git_entity", m.source)) = 1
                /\ \A n \in EntitiesOf("git_entity", m.source) : <<m.id, n>> \in Edges

\* two modules share a Registry source, two share a Git source
C5_Witness ==
    /\ Built
    /\ \E m1, m2 \in Modules :
        m1.id # m2.id /\ m1.source = m2.source /\ _is_registry_module(m1.source)
    /\ \E m1, m2 \in Modules :
        m1.id # m2.id /\ m1.source = m2.source /\ _is_git_source(m1.source)

(***************************************************************************)
(* C7.  Same-file suppression: no data_dependency edge joins two module    *)
(* nodes with equal file paths.                                            *)
(***************************************************************************)
C7_SameFileSuppression ==
    Built =>
        \A e \in Edges :
            (EdgeType(e) = "data_dependency"
                /\ KindOf(e[1]) = "module" /\ KindOf(e[2]) = "module")
            => G.nodes[e[1]].file_path # G.nodes[e[2]].file_path

\* two modules of one file, neither Git nor Registry, whose inputs name each
\* other
C7_Witness ==
    /\ Built
    /\ \E m1, m2 \in Modules :
        /\ m1.id # m2.id
        /\ m1.file_path = m2.file_path
        /\ ~IsGitOrRegistry(m1.source) /\ ~IsGitOrRegistry(m2.source)
        /\ m2.name \in Range(m1.implicit_module_refs)
        /\ m1.name \in Range(m2.implicit_module_refs)
        /\ m1.id \in Nodes /\ m2.id \in Nodes

(***************************************************************************)
(* C8.  A local module directory with n >= 1 calling modules has exactly   *)
(* one source-module node, and exactly n provides edges leave it, one to   *)
(* each caller.  The code breaks it: _find_source_modules matches on the   *)
(* directory's final name alone (see C10).                                 *)
(***************************************************************************)
SourceModuleNodes(d) ==
    {n \in Nodes : /\ KindOf(n) = "module"
                   /\ G.nodes[n].module_type = "source_module"
                   /\ G.nodes[n].file_path = PathStr(d)}

ProvidedBy(n) == {e[2] : e \in {d \in Edges : d[1] = n /\ EdgeType(d) = "provides"}}

C8_OneSourceModuleNProvides ==
    Built =>
        \A d \in Dirs(parsed.root_dir) :
            Callers(d) # {} =>
                /\ Cardinality(SourceModuleNodes(d)) = 1
                /\ \A n \in SourceModuleNodes(d) :
                    ProvidedBy(n) = {m.id : m \in Callers(d)}

(***************************************************************************)
(* C9.  find_cycles returns every elementary cycle exactly once up to      *)
(* rotation, self-loops included, and returns the empty list exactly when  *)
(* the graph is acyclic.                                                   *)
(***************************************************************************)
\* the sequences of n distinct nodes
RECURSIVE DistinctSeqs(_, _)
DistinctSeqs(S, n) ==
    IF n = 0 THEN {<<>>}
    ELSE UNION {{Append(p, x) : x \in S \ Range(p)} : p \in DistinctSeqs(S, n - 1)}

IsCycle(c) ==
    /\ Len(c) >= 1
    /\ \A i \in 1..Len(c) : <<c[i], c[(i % Len(c)) + 1]>> \in Edges

ElementaryCycles ==
    {c \in UNION {DistinctSeqs(Nodes, n) : n \in 1..Cardinality(Nodes)} : IsCycle(c)}

IsRotation(c, d) ==
    /\ Len(c) = Len(d)
    /\ \E k \in 0..(Len(c) - 1) :
        \A i \in 1..Len(c) : d[i] = c[((i + k - 1) % Len(c)) + 1]

\* reachability by one or more edges
RECURSIVE ReachableIn(_, _)
ReachableIn(S, k) ==
    IF k = 0 THEN S
    ELSE ReachableIn(S \cup {e[2] : e \in {d \in Edges : d[1] \in S}}, k - 1)

Acyclic ==
    \A n \in Nodes :
        n \notin ReachableIn({e[2] : e \in {d \in Edges : d[1] = n}}, Cardinality(Nodes))

C9_EveryCycleOnce ==
    pc = "reported" =>
        LET elementary == ElementaryCycles
        IN  /\ \A i \in 1..Len(cycles) : cycles[i] \in elementary
            /\ \A c \in elementary :
                Cardinality({i \in 1..Len(cycles) : IsRotation(cycles[i], c)}) = 1
            /\ (cycles = <<>>) <=> Acyclic

\* the graph A->B, B->C, C->A and its one cycle
C9_Witness ==
    /\ pc = "reported"
    /\ Edges = {<<CycleNodeNames[1], CycleNodeNames[2]>>,
                <<CycleNodeNames[2], CycleNodeNames[3]>>,
                <<CycleNodeNames[3], CycleNodeNames[1]>>}
    /\ Len(cycles) = 1
    /\ Range(cycles[1]) = {CycleNodeNames[1], CycleNodeNames[2], CycleNodeNames[3]}

(***************************************************************************)
(* C10.  A Local source that names no existing directory yields no         *)
(* source-module link: no provides edge ends at that module.  The code     *)
(* breaks it: a source module elsewhere with the same final directory name *)
(* is linked.                                                              *)
(***************************************************************************)
C10_NoLinkForMissingDirectory ==
    Built =>
        \A m \in Modules :
            (/\ ~IsSourceModuleId(m.id)
             /\ _is_local_source(m.source)
             /\ SourceDirectory(m) \notin Dirs(parsed.root_dir))
            => /\ m.id \in Nodes
               /\ \A e \in Edges : e[2] = m.id => EdgeType(e) # "provides"

(***************************************************************************)
(* C14.  A non-empty source that starts with ./ or ../ and is not Git is   *)
(* Local, and a non-empty source without "/" that is neither Git nor       *)
(* Registry is Local.  The code breaks it: the guard against protocols     *)
(* comes first, so "./::" and "http" are not Local (nor anything else).    *)
(***************************************************************************)
C14_LocalRule ==
    (pc = "classified" /\ source # <<>>) =>
        /\ ((StartsWith(source, S_dot_slash) \/ StartsWith(source, S_dotdot_slash))
                /\ ~verdict.git) => verdict.local
        /\ (~Contains(source, S_slash) /\ ~verdict.git /\ ~verdict.registry)
                => verdict.local

(***************************************************************************)
(* C15.  Git first: a module whose source satisfies the Git rule gets the  *)
(* subtype git_module.  The code breaks it: line 100 tests the Registry    *)
(* rule before the Git rule, so "github.com/o/r" becomes registry_module.  *)
(***************************************************************************)
C15_GitFirst ==
    Built =>
        \A m \in Modules :
            (~IsSourceModuleId(m.id) /\ _is_git_source(m.source))
                => G.nodes[m.id].module_type = "git_module"

(***************************************************************************)
(* C16.  Explicit dependency pass: for a module that is neither Git nor    *)
(* Registry, every identity its depends_on resolves to that is a node has  *)
(* an edge from the module whose edge type is depends_on.  The code breaks *)
(* it: line 264 adds the edge without an edge type.                        *)
(***************************************************************************)
C16_ExplicitEdgesTyped ==
    Built =>
        \A m \in Modules :
            ~IsGitOrRegistry(m.source) =>
                \A tgt \in Range(_resolve_module_like_refs(parsed, m.explicit_deps)) :
                    tgt \in Nodes =>
                        /\ <<m.id, tgt>> \in Edges
                        /\ EdgeType(<<m.id, tgt>>) = "depends_on"

(***************************************************************************)
(* C17.  Implicit dependency pass: for a module that is neither Git nor    *)
(* Registry and a name in its implicit references, every identity under    *)
(* that name that is a node with another file path has a data_dependency   *)
(* edge from the module, labeled "uses <name>"; and every data_dependency  *)
(* edge comes from such a reference.                                       *)
(***************************************************************************)
\* the identities under ref_name that the implicit pass links module m to
ImplicitTargets(m, ref_name) ==
    {tgt \in Range(IndexGet(parsed.name_index, ref_name)) :
        /\ tgt \in Nodes
        /\ "file_path" \in DOMAIN G.nodes[tgt]
        /\ G.nodes[tgt].file_path # m.file_path}

C17_ImplicitEdges ==
    Built =>
        /\ \A m \in Modules :
            ~IsGitOrRegistry(m.source) =>
                \A ref_name \in Range(m.implicit_module_refs) :
                    \A tgt \in ImplicitTargets(m, ref_name) :
                        /\ <<m.id, tgt>> \in Edges
                        /\ EdgeType(<<m.id, tgt>>) = "data_dependency"
                        /\ G.edges[<<m.id, tgt>>].label = S_uses \o ref_name
        /\ \A e \in Edges :
            EdgeType(e) = "data_dependency" =>
                \E m \in Modules :
                    /\ m.id = e[1]
                    /\ ~IsGitOrRegistry(m.source)
                    /\ \E ref_name \in Range(m.implicit_module_refs) :
                        e[2] \in ImplicitTargets(m, ref_name)

\* one reference with two identities under its name, both in other files
C17_Witness ==
    /\ Built
    /\ \E m \in Modules :
        /\ ~IsGitOrRegistry(m.source)
        /\ \E ref_name \in Range(m.implicit_module_refs) :
            Cardinality(ImplicitTargets(m, ref_name)) >= 2

(***************************************************************************)
(* C18.  Folder set: for every module or resource with a file under the    *)
(* root, the graph holds exactly one folder node for each directory from   *)
(* the file's directory up to and including the root directory, and no     *)
(* folder node for a directory outside the root.  The code breaks it when  *)
(* root_dir is the filesystem root, for which no folder node is made (see  *)
(* C3).                                                                    *)
(***************************************************************************)
\* the file paths of the entities build_graph collects files from
EntityFiles ==
    {m.file_path : m \in {x \in Modules : ~IsSourceModuleId(x.id)}}
        \cup (IF include_resources THEN {r.file_path : r \in Resources} ELSE {})

\* the directories from d up to and including root_dir
ChainToRoot(d, root_dir) ==
    {[d EXCEPT !.parts = SubSeq(d.parts, 1, n)] :
        n \in Len(root_dir.parts)..Len(d.parts)}

FolderNodesAt(d) ==
    {n \in Nodes : KindOf(n) = "folder" /\ G.nodes[n].folder_path = PathStr(d)}

C18_FolderChain ==
    Built =>
        /\ \A f \in EntityFiles :
            \A d \in ChainToRoot(PathParent(ParsePath(f)), parsed.root_dir) :
                Cardinality(FolderNodesAt(d)) = 1
        /\ \A n \in Nodes :
            KindOf(n) = "folder" =>
                IsRelativeTo(ParsePath(G.nodes[n].folder_path), parsed.root_dir)

(***************************************************************************)
(* C19.  Folder-to-folder containment: between folder nodes an edge P->F   *)
(* exists exactly when P is the folder of F's parent directory, and it is  *)
(* a contains edge; so a folder node has at most one incoming edge, the    *)
(* root folder has none, and the folders form a forest.                    *)
(***************************************************************************)
FolderNodes == {n \in Nodes : KindOf(n) = "folder"}

FolderPathOf(n) == ParsePath(G.nodes[n].folder_path)

IsParentFolder(P, F) ==
    /\ FolderPathOf(F).parts # <<>>
    /\ FolderPathOf(P) = PathParent(FolderPathOf(F))

C19_FolderForest ==
    Built =>
        /\ \A P, F \in FolderNodes :
            /\ <<P, F>> \in Edges <=> IsParentFolder(P, F)
            /\ <<P, F>> \in Edges => EdgeType(<<P, F>>) = "contains"
        /\ \A F \in FolderNodes :
            /\ Cardinality({e \in Edges : e[2] = F}) <= 1
            /\ FolderPathOf(F) = parsed.root_dir => {e \in Edges : e[2] = F} = {}
        \* every edge leads one level down, so no path of edges returns
        /\ \A P, F \in FolderNodes :
            <<P, F>> \in Edges =>
                Len(FolderPathOf(F).parts) = Len(FolderPathOf(P).parts) + 1

\* the root folder, a folder below it and a folder below that one
C19_Witness ==
    /\ Built
    /\ \E R, P, F \in FolderNodes :
        /\ FolderPathOf(R) = parsed.root_dir
        /\ IsParentFolder(R, P)
        /\ IsParentFolder(P, F)
        /\ <<R, P>> \in Edges /\ <<P, F>> \in Edges

(***************************************************************************)
(* C20.  Source-module provision: a provides edge S -> M exists in the     *)
(* returned graph if and only if M's source classifies as Local, S is a    *)
(* source-module node different from M, and S's name equals the final path *)
(* segment of M's source resolved against M's own directory; the edge runs *)
(* from the source-module to the referencing module, never the other way.  *)
(***************************************************************************)
IsSourceModuleNode(n) ==
    /\ KindOf(n) = "module"
    /\ G.nodes[n].module_type = "source_module"

ProvidesEdgeSet == {e \in Edges : EdgeType(e) = "provides"}

C20_ProvidesIffNameMatch ==
    Built =>
        /\ \A S \in Nodes : \A m \in Modules :
            <<S, m.id>> \in ProvidesEdgeSet <=>
                /\ _is_local_source(m.source)
                /\ IsSourceModuleNode(S)
                /\ S # m.id
                /\ G.nodes[S].name = PathName(SourceDirectory(m))
        /\ \A e \in ProvidesEdgeSet :
            /\ IsSourceModuleNode(e[1])
            /\ ~IsSourceModuleNode(e[2])
            /\ e[2] \in {m.id : m \in Modules}
            /\ <<e[2], e[1]>> \notin ProvidesEdgeSet

\* two source modules of different names, and a module that is provided by
\* the one whose name matches and not by the other
C20_Witness ==
    /\ Built
    /\ \E S, T \in Nodes : \E m \in Modules :
        /\ IsSourceModuleNode(S) /\ IsSourceModuleNode(T)
        /\ G.nodes[S].name # G.nodes[T].name
        /\ <<S, m.id>> \in ProvidesEdgeSet
        /\ <<T, m.id>> \notin ProvidesEdgeSet
        /\ T # m.id

(***************************************************************************)
(* C13.  Registry parsing: for every source classified Registry the        *)
(* registry entity's display name is the second "/"-separated segment of   *)
(* the base (the text before the first "//"), and its submodule label is   *)
(* "submodule: " with the final segment of the subpath (the text after the *)
(* first "//") when there is a subpath and "main module" otherwise.  The   *)
(* code breaks it: a base of one segment is returned whole, and an empty   *)
(* subpath after "//" is labelled "submodule: ".                           *)
(***************************************************************************)
RegistryBase(s) == Split1(s, S_slash_slash)[1]

RegistrySubpath(s) ==
    IF Contains(s, S_slash_slash) THEN Split1(s, S_slash_slash)[2] ELSE <<>>

\* x is the second "/"-separated segment of t
IsSecondSegment(t, x) ==
    \E i \in 1..Len(t) :
        /\ t[i] = "/"
        /\ \A j \in 1..(i - 1) : t[j] # "/"
        /\ \E k \in (i + 1)..(Len(t) + 1) :
            /\ k <= Len(t) => t[k] = "/"
            /\ \A j \in (i + 1)..(k - 1) : t[j] # "/"
            /\ x = SubSeq(t, i + 1, k - 1)

\* the text after the last "/" of t
FinalSegment(t) ==
    LET slashes == {i \in 1..Len(t) : t[i] = "/"}
        last == IF slashes = {} THEN 0
                ELSE CHOOSE i \in slashes : \A j \in slashes : i >= j
    IN  SubSeq(t, last + 1, Len(t))

C13_RegistryParsing ==
    Built =>
        \A m \in Modules :
            _is_registry_module(m.source) =>
                /\ RegistryId(m) \in Nodes
                /\ IsSecondSegment(RegistryBase(m.source), G.nodes[RegistryId(m)].name)
                /\ G.nodes[RegistryId(m)].submodule =
                     IF RegistrySubpath(m.source) # <<>>
                     THEN S_submodule \o FinalSegment(RegistrySubpath(m.source))
                     ELSE S_main_module

(***************************************************************************)
(* C12.  The git entity's display name is owner/repo when the host of the  *)
(* repository URL is github.com, gitlab.com or bitbucket.org, and the      *)
(* final path segment without its .git suffix otherwise; with or without   *)
(* git::, with or without a scheme, with or without a //subpath.  The code *)
(* breaks it: with a scheme the text before the first "//" is the scheme,  *)
(* so the name of git::https://github.com/org/repo.git is "https:".        *)
(***************************************************************************)
\* the repository URL of a git source, cut at "/": the host first, then the
\* path segments; without git::, scheme, user, query and //subpath
GitRepoSegments(s) ==
    LET git_url == IF StartsWith(s, S_git_scheme) THEN SubSeq(s, 6, Len(s)) ELSE s
        no_query == Split1(git_url, <<"?">>)[1]
        no_scheme == IF Contains(no_query, <<":","/","/">>)
                     THEN Split1(no_query, <<":","/","/">>)[2] ELSE no_query
        no_user == IF Contains(Split1(no_scheme, S_slash)[1], <<"@">>)
                   THEN Split1(no_scheme, <<"@">>)[2] ELSE no_scheme
    IN  Split(Split1(no_user, S_slash_slash)[1], S_slash)

WithoutDotGit(t) ==
    IF Len(t) >= 4 /\ SubSeq(t, Len(t) - 3, Len(t)) = S_dot_git
    THEN SubSeq(t, 1, Len(t) - 4) ELSE t

C12_GitDisplayName ==
    Built =>
        \A m \in Modules :
            _is_git_source(m.source) =>
                LET segs == GitRepoSegments(m.source)
                    name == G.nodes[GitId(m)].name
                IN  /\ GitId(m) \in Nodes
                    /\ IF segs[1] \in {S_github, S_gitlab, S_bitbucket} /\ Len(segs) >= 3
                       THEN name = segs[2] \o S_slash \o WithoutDotGit(segs[3])
                       ELSE name = WithoutDotGit(segs[Len(segs)])

(***************************************************************************)
(* C11.  For every git source with a .git marker the git entity's          *)
(* browsable URL is base + tree segment + "/" + ref [+ "/" + subpath]: the *)
(* base is the source without git::, query, subpath and trailing .git; ref *)
(* is the query's ref parameter, "main" when absent; subpath is the text   *)
(* after ".git//" without surrounding slashes, left out when empty; the    *)
(* tree segment is "/-/tree" exactly when the host contains "gitlab" and   *)
(* "/tree" otherwise.  The code breaks it: a scheme other than http(s) is  *)
(* taken for the host, so ssh://git@gitlab.example.com/... gets "/tree".   *)
(***************************************************************************)
WithoutGitScheme(s) == IF StartsWith(s, S_git_scheme) THEN SubSeq(s, 6, Len(s)) ELSE s

\* the value of the query's ref parameter, "main" when there is none
RefOf(s) ==
    LET q == IF Contains(s, <<"?">>) THEN Split1(s, <<"?">>)[2] ELSE <<>>
        fields == Split(q, <<"&">>)
        refs == {i \in 1..Len(fields) :
                    /\ StartsWith(fields[i], <<"r","e","f","=">>)
                    /\ Len(fields[i]) > 4}
    IN  IF refs = {} THEN <<"m","a","i","n">>
        ELSE LET f == fields[CHOOSE i \in refs : \A j \in refs : i <= j]
             IN  SubSeq(f, 5, Len(f))

\* the source without git::, query and fragment
RepoAndSubpath(s) == Split1(Split1(WithoutGitScheme(s), <<"?">>)[1], <<"#">>)[1]

SubpathOf(s) ==
    IF Contains(RepoAndSubpath(s), <<".","g","i","t","/","/">>)
    THEN StripChars(Split1(RepoAndSubpath(s), <<".","g","i","t","/","/">>)[2],
                    {"/"}, TRUE, TRUE)
    ELSE <<>>

BaseOf(s) ==
    IF Contains(RepoAndSubpath(s), <<".","g","i","t","/","/">>)
    THEN Split1(RepoAndSubpath(s), <<".","g","i","t","/","/">>)[1]
    ELSE WithoutDotGit(StripChars(RepoAndSubpath(s), {"/"}, FALSE, TRUE))

BrowsableUrl(s) ==
    BaseOf(s)
        \o (IF Contains(GitRepoSegments(s)[1], <<"g","i","t","l","a","b">>)
            THEN <<"/","-","/","t","r","e","e">> ELSE <<"/","t","r","e","e">>)
        \o S_slash \o RefOf(s)
        \o (IF SubpathOf(s) # <<>> THEN S_slash \o SubpathOf(s) ELSE <<>>)

C11_BrowsableUrl ==
    Built =>
        \A m \in Modules :
            (_is_git_source(m.source) /\ Contains(WithoutGitScheme(m.source), S_dot_git)) =>
                /\ GitId(m) \in Nodes
                /\ G.nodes[GitId(m)].git_url = BrowsableUrl(m.source)

(***************************************************************************)
(* C21.  Source-module containment: for every source-module node S and     *)
(* every file node F, there is a contains edge S -> F exactly when F's     *)
(* path lies under S's directory, directly or in a nested directory.  The  *)
(* code breaks it: it compares the source module's dir, which is relative  *)
(* to the root, with the absolute paths of the files, so the edge is       *)
(* missing.                                                                *)
(***************************************************************************)
FileNodes == {n \in Nodes : KindOf(n) = "terraform_file"}

\* file node F lies in the directory of source-module node S or below it
LiesUnder(F, S) ==
    IsRelativeTo(PathParent(ParsePath(G.nodes[F].file_path)),
                 ParsePath(G.nodes[S].file_path))

C21_SourceModuleContainsFiles ==
    Built =>
        \A S \in Nodes : \A F \in FileNodes :
            IsSourceModuleNode(S) =>
                (LiesUnder(F, S) <=>
                    (<<S, F>> \in Edges /\ EdgeType(<<S, F>>) = "contains"))

(***************************************************************************)
(* C22.  Once all nodes exist the edge-derivation passes are order-        *)
(* insensitive: applied in any order they end in the graph build_graph     *)
(* returns, with the same nodes, edges and attributes.                     *)
(***************************************************************************)
C22_PassOrderInsensitive ==
    (Built /\ passes_done = DOMAIN EdgePasses) =>
        G = build_graph(parsed, include_resources)

\* all passes applied, and two of them have written the same edge: an
\* explicit and an implicit dependency of one module on another
C22_Witness ==
    /\ Built
    /\ passes_done = DOMAIN EdgePasses
    /\ \E m \in Modules : \E tgt \in Nodes :
        /\ tgt \in Range(_resolve_module_like_refs(parsed, m.explicit_deps))
        /\ \E ref_name \in Range(m.implicit_module_refs) :
            tgt \in ImplicitTargets(m, ref_name)
        /\ <<m.id, tgt>> \in Edges

(***************************************************************************)
(* C23.  Resources are included only on request.  Without the request the  *)
(* graph holds no resource node, no edge from or to a resource identity,   *)
(* and no file or folder node that a module does not account for; with it  *)
(* every resource of the entity model is a node with a contains edge from  *)
(* the node of its file.                                                   *)
(***************************************************************************)
PlainModules == {m \in Modules : ~IsSourceModuleId(m.id)}

C23_ResourcesOnRequest ==
    Built =>
        IF include_resources
        THEN \A r \in Resources :
                /\ KindOf(r.id) = "resource"
                /\ <<S_file_colon \o r.file_path, r.id>> \in Edges
                /\ EdgeType(<<S_file_colon \o r.file_path, r.id>>) = "contains"
                /\ KindOf(S_file_colon \o r.file_path) = "terraform_file"
        ELSE /\ \A n \in Nodes : KindOf(n) # "resource"
             /\ \A r \in Resources :
                    /\ r.id \notin Nodes
                    /\ \A e \in Edges : e[1] # r.id /\ e[2] # r.id
             /\ \A F \in FileNodes :
                    \E m \in PlainModules : m.file_path = G.nodes[F].file_path
             /\ \A D \in FolderNodes :
                    \E m \in PlainModules :
                        IsRelativeTo(PathParent(ParsePath(m.file_path)), FolderPathOf(D))

\* a resource in a file without module blocks that modules depend on by
\* name, built without the request and built with it
C23_Witness ==
    /\ Built
    /\ Resources # {}
    /\ \E r \in Resources :
        /\ \A m \in PlainModules : m.file_path # r.file_path
        /\ \E m \in PlainModules :
            r.id \in Range(_resolve_module_like_refs(parsed, m.explicit_deps))
        /\ include_resources => r.id \in Nodes
        /\ ~include_resources => r.id \notin Nodes

(***************************************************************************)
(* C24.  Resource dependency pass, resources included: an entry            *)
(* module.<name> of a resource's depends_on gives a depends_on edge to     *)
(* every node under <name> in the name index, an entry of the bare         *)
(* type.name shape one to every node under type.name, and an entry that    *)
(* begins with var., local. or data. gives none; a resource has no other   *)
(* outgoing edge.                                                          *)
(***************************************************************************)
\* the identities one entry of a depends_on list stands for
EntryTargets(entry) ==
    IF StartsWith(entry, <<"m","o","d","u","l","e",".">>)
    THEN Range(IndexGet(parsed.name_index, SubSeq(entry, 8, Len(entry))))
    ELSE IF \/ StartsWith(entry, <<"v","a","r",".">>)
            \/ StartsWith(entry, <<"l","o","c","a","l",".">>)
            \/ StartsWith(entry, <<"d","a","t","a",".">>)
    THEN {}
    ELSE IF \E i \in 1..Len(entry) : entry[i] = "."
    THEN Range(IndexGet(parsed.name_index, entry))
    ELSE {}

C24_ResourceDependencies ==
    (Built /\ include_resources) =>
        \A r \in Resources :
            LET expected == UNION {EntryTargets(entry) : entry \in Range(r.explicit_deps)}
            IN  /\ \A tgt \in expected \cap Nodes :
                    /\ <<r.id, tgt>> \in Edges
                    /\ EdgeType(<<r.id, tgt>>) = "depends_on"
                /\ \A e \in Edges : e[1] = r.id => e[2] \in expected

\* a resource named like a variable reference, and a resource whose
\* depends_on names it: the entry resolves in the name index, yet no edge
C24_Witness ==
    /\ Built
    /\ include_resources
    /\ \E r \in Resources : \E entry \in Range(r.explicit_deps) :
        /\ StartsWith(entry, <<"v","a","r",".">>)
        /\ Range(IndexGet(parsed.name_index, entry)) \cap Nodes # {}
        /\ \A e \in Edges : e[1] # r.id

\* the source-module records of the parsed model
SourceModuleRecords == {m \in Modules : IsSourceModuleId(m.id)}

\* the module blocks whose source the parser follows to directory d
ParserCallers(d) ==
    {m \in Modules : /\ ~IsSourceModuleId(m.id)
                     /\ m.source # <<>>
                     /\ parser_is_local_source(m.source)
                     /\ SourceDirectory(m) = d}

\* C25: parse_directory returns a model for every tree, whatever local
\* sources its modules name, and has visited each path once: the visited
\* paths are the root and the directories of the source-module records, a
\* directory has at most one source-module record (none for the root, which
\* was visited first), and the name index lists a source-module record once
\* however many modules call its directory.
C25_ParseOnce ==
    pc # "tree" =>
        /\ parsed.root_dir \in parsed.parsed_paths
        /\ {PathStr(p) : p \in parsed.parsed_paths \ {parsed.root_dir}}
              = {m.file_path : m \in SourceModuleRecords}
        /\ \A d \in Dirs(parsed.root_dir) :
              Cardinality({m \in SourceModuleRecords : m.file_path = PathStr(d)})
                  <= IF d # parsed.root_dir THEN 1 ELSE 0
        /\ \A name \in DOMAIN parsed.name_index :
              \A i, j \in 1..Len(parsed.name_index[name]) :
                  (/\ i # j
                   /\ IsSourceModuleId(parsed.name_index[name][i]))
                      => parsed.name_index[name][i] # parsed.name_index[name][j]

\* two module blocks call the same directory, which got its record
C25_Witness ==
    /\ pc = "parsed"
    /\ \E d \in Dirs(parsed.root_dir) :
          /\ Cardinality(ParserCallers(d)) >= 2
          /\ \E m \in SourceModuleRecords : m.file_path = PathStr(d)

LinkedOfKind(n, k) == {t \in Nodes : <<n, t>> \in Edges /\ KindOf(t) = k}

\* C27: after build_graph a module node has an edge to a git entity exactly
\* when its subtype is git_module, an edge to a registry entity exactly when
\* its subtype is registry_module, and never edges to both.
C27_SubtypeAgreesWithLinkage ==
    Built =>
        \A n \in Nodes :
            KindOf(n) = "module" =>
                /\ LinkedOfKind(n, "git_entity") # {}
                        <=> G.nodes[n].module_type = "git_module"
                /\ LinkedOfKind(n, "registry_entity") # {}
                        <=> G.nodes[n].module_type = "registry_module"
                /\ ~(/\ LinkedOfKind(n, "git_entity") # {}
                      /\ LinkedOfKind(n, "registry_entity") # {})

\* the contains edges of the graph
ContainsEdgeSet == {e \in Edges : EdgeType(e) = "contains"}

\* the nodes that k contains steps lead to from the nodes of S
RECURSIVE Contained(_, _)
Contained(S, k) ==
    IF k = 0 \/ S = {} THEN S
    ELSE Contained({e[2] : e \in {c \in ContainsEdgeSet : c[1] \in S}}, k - 1)

C29_NoSelfLoop ==
    /\ Built => \A n \in Nodes : <<n, n>> \notin Edges
    /\ pc = "reported" => \A i \in 1..Len(cycles) : Len(cycles[i]) # 1

\* C30: the graph built without resources is a subgraph of the graph built
\* with resources from the same model: each of its nodes and edges is in the
\* larger graph with the same attributes.
C30_InclusionMonotone ==
    (Built /\ include_resources) =>
        LET small == build_graph(parsed, FALSE)
        IN  /\ \A n \in DOMAIN small.nodes :
                  n \in Nodes /\ G.nodes[n] = small.nodes[n]
            /\ \A e \in DOMAIN small.edges :
                  e \in Edges /\ G.edges[e] = small.edges[e]

\* built with resources: the graph has a resource in a file that also
\* holds a module, and a module with an edge to a resource, a module and a
\* file being in the smaller graph too
C30_Witness ==
    /\ Built /\ include_resources
    /\ \E f, m, r \in Nodes :
          /\ KindOf(m) = "module" /\ KindOf(r) = "resource"
          /\ {<<f, m>>, <<f, r>>} \subseteq ContainsEdgeSet
          /\ {f, m} \subseteq DOMAIN build_graph(parsed, FALSE).nodes
    /\ \E e \in Edges : KindOf(e[1]) = "module" /\ KindOf(e[2]) = "resource"

====
